---- MODULE Spec2Model ----
(***************************************************************************)
(* Model of the anAntaSound analysis pipeline: the BreathingAnalyzer       *)
(* (history store, threshold configuration, state/pattern classifier),    *)
(* the AdaptiveAudioProcessor (emotion vote, preset smoothing, history,   *)
(* tempo resampling), the QuantumAcousticProcessor background loop, the    *)
(* AnantaSoundCore and the ConsciousnessIntegration.                       *)
(*                                                                         *)
(* Real numbers (double) are fixed-point integers in hundredths: 0.7 is    *)
(* 70, 8.0 breaths per minute is 800, 0.25 Hz is 25.                       *)
(***************************************************************************)
EXTENDS Integers, Sequences, FiniteSets, TLC

VARIABLES
    analyzers,    \* BreathingAnalyzer objects: instance id -> fields
    clock,        \* per object: reading of the clock, ticking as an analysis is recorded
    last,         \* the latest analyzeBreathing call of the sequential caller and its result
    cin,          \* inputs of the classifier harness (rate, depth, regularity)
    cout,         \* output of the classifier harness
    processor,    \* the AdaptiveAudioProcessor object
    plast,        \* the latest processAudio call and its return value
    pc,           \* per thread: position inside the public method it is running
    call,         \* per thread: the method, instance and argument of the running call
    ret,          \* per thread: value returned by its latest completed call
    qap,          \* the QuantumAcousticProcessor object (fields_, flag, mutex)
    qpc,          \* positions of the background loop and of the callers of qap
    query,        \* the latest query (getter, statistics) of the sequential caller, its result
    ov,           \* the analyzeBreathingWithOverlap call in progress: loop position, results
    audio_analyzer, \* per object: the spectral AudioAnalyzer it owns (audio_analyzer_)
    initialized,  \* per object: what its latest initialize call returned
    core,         \* the AnantaSoundCore object
    ci,           \* the ConsciousnessIntegration object
    tempo         \* the applyTempoAdjustment call in progress: loop index, result

vars == <<analyzers, clock, last, cin, cout, processor, plast, pc, call, ret, qap, qpc,
          query, ov, audio_analyzer, initialized, core, ci, tempo>>

(***************************************************************************)
(* Bounds of the model                                                     *)
(***************************************************************************)
MaxCalls == 4         \* analyses per run of the sequential specification
MaxLongExtra == 2     \* analyses beyond the history capacity in the long run
MaxThreadOps == 1     \* public calls issued by each thread
MaxFields == 2        \* fields added to the QuantumAcousticProcessor
MaxSessionCalls == 2  \* recorded analyses per object in a session
MaxSamples == 40      \* samples in a buffer given to analyzeBreathingWithOverlap
MaxFrames == 45       \* frames analysed by one analyzeBreathingWithOverlap call
MaxRateHistory == 3   \* length of the rate histories given to the pattern classifier

(***************************************************************************)
(* Numbers                                                                 *)
(***************************************************************************)
One == 100            \* the double 1.0

Min(a, b) == IF a < b THEN a ELSE b
Max(a, b) == IF a > b THEN a ELSE b

RECURSIVE SqrtBetween(_, _, _)
\* the largest s in lo..hi with s * s <= v, by bisection
SqrtBetween(v, lo, hi) ==
    IF lo = hi THEN lo
    ELSE LET mid == (lo + hi + 1) \div 2
         IN  IF mid * mid <= v THEN SqrtBetween(v, mid, hi) ELSE SqrtBetween(v, lo, mid - 1)
\* std::sqrt on a value in 1e-4 units, result in hundredths (rounded down)
Sqrt(v) == SqrtBetween(v, 0, 10000)

RECURSIVE Accumulate(_)
\* std::accumulate(begin, end, 0.0)
Accumulate(s) == IF s = <<>> THEN 0 ELSE Head(s) + Accumulate(Tail(s))

RECURSIVE SumSqDev(_, _)
\* the loop  variance += (rate - mean) * (rate - mean)
SumSqDev(s, mean) ==
    IF s = <<>> THEN 0
    ELSE (Head(s) - mean) * (Head(s) - mean) + SumSqDev(Tail(s), mean)

Last(s) == s[Len(s)]

(***************************************************************************)
(* BreathingAnalyzer: types                                                *)
(***************************************************************************)
BreathingState == {"NORMAL", "DEEP", "SHALLOW", "RAPID", "IRREGULAR", "HOLDING", "UNKNOWN"}
BreathingPattern == {"REGULAR", "IRREGULAR", "CYCLICAL", "STRESSED", "EXERCISE", "RELAXED", "UNKNOWN"}

\* BreathingAnalysisResult(): the default-constructed result
BreathingAnalysisResult(ts) ==
    [current_state |-> "UNKNOWN", pattern |-> "UNKNOWN",
     breathing_rate |-> 0, breathing_depth |-> 0, breathing_regularity |-> 0,
     stress_level |-> 0, relaxation_level |-> 0, timestamp |-> ts]

NoThread == "none"

\* the threshold fields set by initializeDefaultThresholds
initializeDefaultThresholds ==
    [normal_breathing_rate_min_ |-> 800,
     normal_breathing_rate_max_ |-> 2000,
     deep_breathing_threshold_ |-> 70,
     shallow_breathing_threshold_ |-> 30,
     rapid_breathing_threshold_ |-> 2500,
     irregularity_threshold_ |-> 70]

\* BreathingAnalyzer::BreathingAnalyzer: the object after construction
NewBreathingAnalyzer ==
    [analysis_history_ |-> <<>>,
     breathing_rate_history_ |-> <<>>,
     amplitude_history_ |-> <<>>,
     history_size_ |-> 20,
     analysis_window_size_ |-> 1024,
     analyzer_mutex_ |-> NoThread,
     thresholds |-> initializeDefaultThresholds]

(***************************************************************************)
(* BreathingAnalyzer: the private, pure helpers                            *)
(***************************************************************************)
\* an audio buffer is known to the analyzer through its emptiness and the
\* AudioAnalysisResult the spectral analyzer derives from it
EmptyBuffer == [empty |-> TRUE, fundamental_frequency |-> 0, volume_level |-> 0]
Buffer(f, v) == [empty |-> FALSE, fundamental_frequency |-> f, volume_level |-> v]

calculateBreathingRate(analysis) ==
    Max(400, Min(6000, analysis.fundamental_frequency * 60))

calculateBreathingDepth(analysis) ==
    Min(One, analysis.volume_level * 2)

Mean(rate_history) == Accumulate(rate_history) \div Len(rate_history)
StdDev(rate_history) ==
    Sqrt(SumSqDev(rate_history, Mean(rate_history)) \div Len(rate_history))

calculateBreathingRegularity(rate_history) ==
    IF Len(rate_history) < 2 THEN One
    ELSE Max(0, One - Min(One, (StdDev(rate_history) * One) \div Mean(rate_history)))

\* mutant: tests the normal-maximum rule before the rapid-threshold rule
classifyBreathingState_MaxBeforeRapid(th, rate, depth, regularity) ==
    IF rate < th.normal_breathing_rate_min_
    THEN (IF depth > th.deep_breathing_threshold_ THEN "DEEP" ELSE "HOLDING")
    ELSE IF rate > th.normal_breathing_rate_max_
    THEN (IF depth < th.shallow_breathing_threshold_ THEN "SHALLOW" ELSE "RAPID")
    ELSE IF rate > th.rapid_breathing_threshold_ THEN "RAPID"
    ELSE IF regularity < th.irregularity_threshold_ THEN "IRREGULAR"
    ELSE IF depth > th.deep_breathing_threshold_ THEN "DEEP"
    ELSE IF depth < th.shallow_breathing_threshold_ THEN "SHALLOW"
    ELSE "NORMAL"

classifyBreathingState(th, rate, depth, regularity) ==
    IF rate < th.normal_breathing_rate_min_
    THEN (IF depth > th.deep_breathing_threshold_ THEN "DEEP" ELSE "HOLDING")
    ELSE IF rate > th.rapid_breathing_threshold_ THEN "RAPID"
    ELSE IF rate > th.normal_breathing_rate_max_
    THEN (IF depth < th.shallow_breathing_threshold_ THEN "SHALLOW" ELSE "RAPID")
    ELSE IF regularity < th.irregularity_threshold_ THEN "IRREGULAR"
    ELSE IF depth > th.deep_breathing_threshold_ THEN "DEEP"
    ELSE IF depth < th.shallow_breathing_threshold_ THEN "SHALLOW"
    ELSE "NORMAL"

\* mutant: asks for 2 recorded rates instead of 3
classifyBreathingPattern_TwoEntries(rate_history) ==
    IF Len(rate_history) < 2 THEN "UNKNOWN"
    ELSE LET mean_rate == Mean(rate_history)
             variance == SumSqDev(rate_history, mean_rate) \div Len(rate_history)
             \* coefficient_of_variation = sqrt(variance) / mean_rate against 0.1
             \* and 0.3, compared in squares: variance against 0.01 and 0.09 mean^2
         IN  IF variance * One < mean_rate * mean_rate THEN "REGULAR"
             ELSE IF variance * One > 9 * mean_rate * mean_rate THEN "IRREGULAR"
             ELSE IF mean_rate < 800 THEN "RELAXED"
             ELSE IF mean_rate > 2000 THEN "STRESSED"
             ELSE IF mean_rate > 1500 THEN "EXERCISE"
             ELSE "CYCLICAL"

\* mutant: tests the exercise band before the stressed band
classifyBreathingPattern_ExerciseFirst(rate_history) ==
    IF Len(rate_history) < 3 THEN "UNKNOWN"
    ELSE LET mean_rate == Mean(rate_history)
             variance == SumSqDev(rate_history, mean_rate) \div Len(rate_history)
             \* coefficient_of_variation = sqrt(variance) / mean_rate against 0.1
             \* and 0.3, compared in squares: variance against 0.01 and 0.09 mean^2
         IN  IF variance * One < mean_rate * mean_rate THEN "REGULAR"
             ELSE IF variance * One > 9 * mean_rate * mean_rate THEN "IRREGULAR"
             ELSE IF mean_rate < 800 THEN "RELAXED"
             ELSE IF mean_rate > 1500 THEN "EXERCISE"
             ELSE IF mean_rate > 2000 THEN "STRESSED"
             ELSE "CYCLICAL"

classifyBreathingPattern(rate_history) ==
    IF Len(rate_history) < 3 THEN "UNKNOWN"
    ELSE LET mean_rate == Mean(rate_history)
             variance == SumSqDev(rate_history, mean_rate) \div Len(rate_history)
             \* coefficient_of_variation = sqrt(variance) / mean_rate against 0.1
             \* and 0.3, compared in squares: variance against 0.01 and 0.09 mean^2
         IN  IF variance * One < mean_rate * mean_rate THEN "REGULAR"
             ELSE IF variance * One > 9 * mean_rate * mean_rate THEN "IRREGULAR"
             ELSE IF mean_rate < 800 THEN "RELAXED"
             ELSE IF mean_rate > 2000 THEN "STRESSED"
             ELSE IF mean_rate > 1500 THEN "EXERCISE"
             ELSE "CYCLICAL"

\* a / b on doubles for a > 0: +infinity for b = 0, negative for b < 0
Infinity == 1000000
Ratio(a, b) ==
    IF b = 0 THEN Infinity
    ELSE IF b < 0 THEN 0 - ((a * One) \div (0 - b))
    ELSE (a * One) \div b

calculateStressLevel(th, rate, depth, regularity) ==
    LET s1 == IF rate > th.normal_breathing_rate_max_
              THEN Ratio(rate - th.normal_breathing_rate_max_,
                         th.rapid_breathing_threshold_ - th.normal_breathing_rate_max_)
              ELSE 0
        s2 == ((One - regularity) * 50) \div One
        s3 == IF depth < th.shallow_breathing_threshold_
              THEN Ratio(th.shallow_breathing_threshold_ - depth, th.shallow_breathing_threshold_)
              ELSE 0
    IN  Min(One, s1 + s2 + s3)

calculateRelaxationLevel(th, rate, depth, regularity) ==
    LET r1 == IF rate >= th.normal_breathing_rate_min_ /\ rate <= th.normal_breathing_rate_max_
              THEN 40 ELSE 0
        r2 == (regularity * 30) \div One
        r3 == IF depth > th.deep_breathing_threshold_
              THEN ((depth - th.deep_breathing_threshold_) * 30) \div One
              ELSE 0
    IN  Min(One, r1 + r2 + r3)

\* mutant: evicts the newest entry (pop_back) instead of the oldest
PushBounded_PopBack(h, e, history_size_) ==
    LET pushed == Append(h, e)
    IN  IF Len(pushed) > history_size_ THEN SubSeq(pushed, 1, history_size_) ELSE pushed

\* push_back, then pop_front when the size exceeds history_size_
PushBounded(h, e, history_size_) ==
    LET pushed == Append(h, e)
    IN  IF Len(pushed) > history_size_ THEN Tail(pushed) ELSE pushed

\* mutant: the rate history is never evicted
updateHistory_RateHistoryUnbounded(self, result) ==
    [self EXCEPT
        !.analysis_history_ = PushBounded(@, result, self.history_size_),
        !.breathing_rate_history_ = Append(@, result.breathing_rate),
        !.amplitude_history_ = PushBounded(@, result.breathing_depth, self.history_size_)]

updateHistory(self, result) ==
    [self EXCEPT
        !.analysis_history_ = PushBounded(@, result, self.history_size_),
        !.breathing_rate_history_ = PushBounded(@, result.breathing_rate, self.history_size_),
        !.amplitude_history_ = PushBounded(@, result.breathing_depth, self.history_size_)]

(***************************************************************************)
(* BreathingAnalyzer: the bodies of the public methods, run under the      *)
(* lock_guard on analyzer_mutex_.  Each yields the object afterwards and   *)
(* the value returned.                                                     *)
(***************************************************************************)
\* mutant: records the call's own rate before classifying
analyzeBreathing_UpdateFirst(self, audio_buffer, now) ==
    IF audio_buffer.empty
    THEN [self |-> self, ret |-> BreathingAnalysisResult(now)]
    ELSE LET th == self.thresholds
             rate == calculateBreathingRate(audio_buffer)
             depth == calculateBreathingDepth(audio_buffer)
             recorded == PushBounded(self.breathing_rate_history_, rate, self.history_size_)
             regularity == calculateBreathingRegularity(recorded)
             result ==
                 [current_state |-> classifyBreathingState(th, rate, depth, regularity),
                  pattern |-> classifyBreathingPattern(recorded),
                  breathing_rate |-> rate,
                  breathing_depth |-> depth,
                  breathing_regularity |-> regularity,
                  stress_level |-> calculateStressLevel(th, rate, depth, regularity),
                  relaxation_level |-> calculateRelaxationLevel(th, rate, depth, regularity),
                  timestamp |-> now]
         IN  [self |-> updateHistory(self, result), ret |-> result]

\* mutant: a result without a classified state keeps the constructor's UNKNOWN
analyzeBreathing_KeepsUnknown(self, audio_buffer, now) ==
    IF audio_buffer.empty
    THEN [self |-> self, ret |-> BreathingAnalysisResult(now)]
    ELSE LET th == self.thresholds
             rate == calculateBreathingRate(audio_buffer)
             depth == calculateBreathingDepth(audio_buffer)
             regularity == calculateBreathingRegularity(self.breathing_rate_history_)
             state == classifyBreathingState(th, rate, depth, regularity)
             result ==
                 [current_state |-> IF state = "NORMAL" THEN "UNKNOWN" ELSE state,
                  pattern |-> classifyBreathingPattern(self.breathing_rate_history_),
                  breathing_rate |-> rate,
                  breathing_depth |-> depth,
                  breathing_regularity |-> regularity,
                  stress_level |-> calculateStressLevel(th, rate, depth, regularity),
                  relaxation_level |-> calculateRelaxationLevel(th, rate, depth, regularity),
                  timestamp |-> now]
         IN  [self |-> updateHistory(self, result), ret |-> result]

analyzeBreathing(self, audio_buffer, now) ==
    IF audio_buffer.empty
    THEN [self |-> self, ret |-> BreathingAnalysisResult(now)]
    ELSE LET th == self.thresholds
             rate == calculateBreathingRate(audio_buffer)
             depth == calculateBreathingDepth(audio_buffer)
             regularity == calculateBreathingRegularity(self.breathing_rate_history_)
             result ==
                 [current_state |-> classifyBreathingState(th, rate, depth, regularity),
                  pattern |-> classifyBreathingPattern(self.breathing_rate_history_),
                  breathing_rate |-> rate,
                  breathing_depth |-> depth,
                  breathing_regularity |-> regularity,
                  stress_level |-> calculateStressLevel(th, rate, depth, regularity),
                  relaxation_level |-> calculateRelaxationLevel(th, rate, depth, regularity),
                  timestamp |-> now]
         IN  [self |-> updateHistory(self, result), ret |-> result]

\* mutant: a change of the rate band drops the history recorded under the old one
setBreathingRateThresholds_ClearsHistory(self, min_normal, max_normal) ==
    [self EXCEPT !.thresholds.normal_breathing_rate_min_ = min_normal,
                 !.thresholds.normal_breathing_rate_max_ = max_normal,
                 !.analysis_history_ = <<>>,
                 !.breathing_rate_history_ = <<>>,
                 !.amplitude_history_ = <<>>]

setBreathingRateThresholds(self, min_normal, max_normal) ==
    [self EXCEPT !.thresholds.normal_breathing_rate_min_ = min_normal,
                 !.thresholds.normal_breathing_rate_max_ = max_normal]

setDepthThresholds(self, deep_threshold, shallow_threshold) ==
    [self EXCEPT !.thresholds.deep_breathing_threshold_ = deep_threshold,
                 !.thresholds.shallow_breathing_threshold_ = shallow_threshold]

setRapidBreathingThreshold(self, threshold) ==
    [self EXCEPT !.thresholds.rapid_breathing_threshold_ = threshold]

setIrregularityThreshold(self, threshold) ==
    [self EXCEPT !.thresholds.irregularity_threshold_ = threshold]

\* the getters: the neutral default on an empty history, else a field of the
\* newest entry or the mean of the recorded rates
getCurrentBreathingState(self) ==
    IF self.analysis_history_ = <<>> THEN "UNKNOWN"
    ELSE Last(self.analysis_history_).current_state

getBreathingPattern(self) ==
    IF self.analysis_history_ = <<>> THEN "UNKNOWN"
    ELSE Last(self.analysis_history_).pattern

getAverageBreathingRate(self) ==
    IF self.breathing_rate_history_ = <<>> THEN 0
    ELSE Accumulate(self.breathing_rate_history_) \div Len(self.breathing_rate_history_)

getStressLevel(self) ==
    IF self.analysis_history_ = <<>> THEN 0
    ELSE Last(self.analysis_history_).stress_level

getRelaxationLevel(self) ==
    IF self.analysis_history_ = <<>> THEN 0
    ELSE Last(self.analysis_history_).relaxation_level

\* BreathingStatistics stats; -- the struct has no initializers, so until they
\* are assigned its fields hold whatever the storage held: leftover values,
\* zero bytes (the first enumerators, NORMAL and REGULAR), or by chance the
\* neutral values
Indeterminate == "indeterminate"     \* an enumeration field holding no enumerator
Leftover == 12345                    \* a numeric field holding a leftover value
BreathingStatistics ==
   << [average_breathing_rate |-> Leftover, average_stress_level |-> Leftover,
      average_relaxation_level |-> Leftover, most_common_state |-> Indeterminate,
      most_common_pattern |-> Indeterminate, total_analyses |-> Leftover],
     [average_breathing_rate |-> 0, average_stress_level |-> 0,
      average_relaxation_level |-> 0, most_common_state |-> "NORMAL",
      most_common_pattern |-> "REGULAR", total_analyses |-> 0],
     [average_breathing_rate |-> 0, average_stress_level |-> 0,
      average_relaxation_level |-> 0, most_common_state |-> "UNKNOWN",
      most_common_pattern |-> "UNKNOWN", total_analyses |-> 0] >>

(***************************************************************************)
(* AdaptiveAudioProcessor                                                  *)
(***************************************************************************)
\* enum class EmotionalState, in declaration order (the order of std::map keys)
EmotionalState == <<"CALM", "EXCITED", "STRESSED", "FOCUSED", "RELAXED", "UNKNOWN">>

\* AdaptationParameters(): the neutral parameters
AdaptationParameters ==
    [volume_multiplier |-> 100, tempo_multiplier |-> 100, bass_boost |-> 0,
     treble_boost |-> 0, reverb_amount |-> 0, echo_delay |-> 0]

Params(v, t, b, tr, r, e) ==
    [volume_multiplier |-> v, tempo_multiplier |-> t, bass_boost |-> b,
     treble_boost |-> tr, reverb_amount |-> r, echo_delay |-> e]

\* AdaptationResult(): the default-constructed result
AdaptationResult(ts) ==
    [detected_emotion |-> "UNKNOWN", applied_parameters |-> AdaptationParameters,
     confidence |-> 0, timestamp |-> ts]

initializeEmotionPresets ==
    [e \in {"CALM", "EXCITED", "STRESSED", "FOCUSED", "RELAXED"} |->
        CASE e = "CALM" -> Params(80, 90, 20, 10, 30, 10)
          [] e = "EXCITED" -> Params(120, 110, 40, 30, 10, 0)
          [] e = "STRESSED" -> Params(70, 80, 10, 0, 50, 20)
          [] e = "FOCUSED" -> Params(100, 100, 0, 20, 0, 0)
          [] e = "RELAXED" -> Params(90, 85, 30, 0, 40, 15)]

\* AdaptiveAudioProcessor::AdaptiveAudioProcessor: the object after construction
NewAdaptiveAudioProcessor ==
    [emotion_presets_ |-> initializeEmotionPresets,
     emotion_history_ |-> <<>>,
     parameter_history_ |-> <<>>,
     history_size_ |-> 10,
     adaptation_sensitivity_ |-> 70,
     processor_mutex_ |-> NoThread]

\* an input buffer of the processor: emptiness and its AudioAnalysisResult
EmptyInput ==
    [empty |-> TRUE, fundamental_frequency |-> 0, volume_level |-> 0, tempo |-> 0,
     zero_crossing_rate |-> 0, spectral_centroid |-> 0, spectral_rolloff |-> 0]
Input(f, v, t, z, c, r) ==
    [empty |-> FALSE, fundamental_frequency |-> f, volume_level |-> v, tempo |-> t,
     zero_crossing_rate |-> z, spectral_centroid |-> c, spectral_rolloff |-> r]

analyzeBreathingPattern(analysis) ==
    IF analysis.fundamental_frequency < 50 THEN "RELAXED"
    ELSE IF analysis.fundamental_frequency > 200 THEN "EXCITED"
    ELSE IF analysis.volume_level > 70 THEN "STRESSED"
    ELSE "CALM"

analyzeRhythmicPattern(analysis) ==
    IF analysis.tempo > 12000 THEN "EXCITED"
    ELSE IF analysis.tempo < 8000 THEN "RELAXED"
    ELSE IF analysis.zero_crossing_rate > 30 THEN "FOCUSED"
    ELSE "CALM"

analyzeSpectralCharacteristics(analysis) ==
    IF analysis.spectral_centroid > 200000 THEN "FOCUSED"
    ELSE IF analysis.spectral_centroid < 50000 THEN "RELAXED"
    ELSE IF analysis.spectral_rolloff > 400000 THEN "EXCITED"
    ELSE "CALM"

\* std::max_element over a std::map<EmotionalState, int>: the first key, in key
\* order, whose count no other key exceeds
MaxElement(counts) ==
    LET best == CHOOSE k \in 1..Len(EmotionalState) :
                    /\ counts[EmotionalState[k]] > 0
                    /\ \A j \in 1..Len(EmotionalState) :
                          /\ counts[EmotionalState[j]] <= counts[EmotionalState[k]]
                          /\ (j < k => counts[EmotionalState[j]] < counts[EmotionalState[k]])
    IN  EmotionalState[best]

detectEmotionalState(analysis) ==
    LET breathing_emotion == analyzeBreathingPattern(analysis)
        rhythmic_emotion == analyzeRhythmicPattern(analysis)
        spectral_emotion == analyzeSpectralCharacteristics(analysis)
        votes == [e \in {EmotionalState[k] : k \in 1..Len(EmotionalState)} |->
                     (IF breathing_emotion = e THEN 1 ELSE 0)
                   + (IF rhythmic_emotion = e THEN 1 ELSE 0)
                   + (IF spectral_emotion = e THEN 1 ELSE 0)]
    IN  MaxElement(votes)

getAdaptationParameters(self, emotion) ==
    IF emotion \in DOMAIN self.emotion_presets_
    THEN self.emotion_presets_[emotion]
    ELSE AdaptationParameters

\* mutant: the weights of the preset and of the previous output exchanged
Smooth_WeightsExchanged(new, previous) == (30 * new + 70 * previous) \div One

\* (1.0 - smoothing_factor) * new + smoothing_factor * previous, factor 0.3
Smooth(new, previous) == (70 * new + 30 * previous) \div One

smoothAdaptationParameters(self, new_params) ==
    IF self.parameter_history_ = <<>> THEN new_params
    ELSE LET back == Last(self.parameter_history_)
         IN  [f \in DOMAIN new_params |-> Smooth(new_params[f], back[f])]

\* push_back, then erase(begin()) when the size exceeds history_size_
processorUpdateHistory(self, emotion, parameters) ==
    LET eh == Append(self.emotion_history_, emotion)
        ph == Append(self.parameter_history_, parameters)
    IN  [self EXCEPT
            !.emotion_history_ = IF Len(eh) > self.history_size_ THEN Tail(eh) ELSE eh,
            !.parameter_history_ = IF Len(ph) > self.history_size_ THEN Tail(ph) ELSE ph]

\* mutant: no early return for an empty buffer
processAudio_NoEmptyCheck(self, input_audio, confidence, now) ==
    LET detected_emotion == detectEmotionalState(input_audio)
        base_params == getAdaptationParameters(self, detected_emotion)
        applied_parameters == smoothAdaptationParameters(self, base_params)
    IN  [self |-> processorUpdateHistory(self, detected_emotion, applied_parameters),
         ret |-> [detected_emotion |-> detected_emotion,
                  applied_parameters |-> applied_parameters,
                  confidence |-> confidence,
                  timestamp |-> now]]

\* confidence is the value of calculateConfidence, which the caller of the
\* model supplies
processAudio(self, input_audio, confidence, now) ==
    IF input_audio.empty
    THEN [self |-> self, ret |-> AdaptationResult(now)]
    ELSE LET detected_emotion == detectEmotionalState(input_audio)
             base_params == getAdaptationParameters(self, detected_emotion)
             applied_parameters == smoothAdaptationParameters(self, base_params)
         IN  [self |-> processorUpdateHistory(self, detected_emotion, applied_parameters),
              ret |-> [detected_emotion |-> detected_emotion,
                       applied_parameters |-> applied_parameters,
                       confidence |-> confidence,
                       timestamp |-> now]]

AdaptiveAudioProcessor_setEmotionPreset(self, emotion, parameters) ==
    [self EXCEPT !.emotion_presets_ =
        [e \in DOMAIN @ \cup {emotion} |-> IF e = emotion THEN parameters ELSE @[e]]]

\* mutant: an empty history counts as the first enumerator
getMostCommonEmotion_FirstEnumerator(self) ==
    IF self.emotion_history_ = <<>> THEN EmotionalState[1]
    ELSE MaxElement([e \in {EmotionalState[k] : k \in 1..Len(EmotionalState)} |->
                        Cardinality({k \in 1..Len(self.emotion_history_) :
                                        self.emotion_history_[k] = e})])

getMostCommonEmotion(self) ==
    IF self.emotion_history_ = <<>> THEN "UNKNOWN"
    ELSE MaxElement([e \in {EmotionalState[k] : k \in 1..Len(EmotionalState)} |->
                        Cardinality({k \in 1..Len(self.emotion_history_) :
                                        self.emotion_history_[k] = e})])

\* AdaptiveAudioProcessor::getStatistics: the most common emotion and the
\* counters the code leaves at 0
AdaptiveAudioProcessor_getStatistics(self) ==
    [total_processed_samples |-> 0,
     most_common_emotion |-> getMostCommonEmotion(self),
     average_confidence |-> 0,
     average_volume_adjustment |-> 0,
     average_tempo_adjustment |-> 0]

(***************************************************************************)
(* Inputs                                                                  *)
(***************************************************************************)
\* the empty buffer and frames of 19.2 and 30 breaths per minute, of depth
\* 0.34 and 0.2
Buffers == {EmptyBuffer, Buffer(32, 17), Buffer(50, 10)}
RateThresholdValues == {<<800, 2000>>, <<1000, 1800>>}
DepthThresholdValues == {<<60, 40>>}
RapidThresholdValues == {1500}
IrregularityThresholdValues == {90}

Threads == {"t1", "t2"}

Getters == {"getCurrentBreathingState", "getBreathingPattern", "getAverageBreathingRate",
            "getStressLevel", "getRelaxationLevel"}

NoCall == [op |-> "none", inst |-> "none", arg |-> <<>>]
NoReturn == "none"

\* how a call ended: with a returned value or with a thrown exception
NoResult == [threw |-> FALSE, value |-> NoReturn]
Returned(value) == [threw |-> FALSE, value |-> value]
Thrown(exception) == [threw |-> TRUE, value |-> exception]

\* the parts of the state a specification does not use stay as constructed
IdleHarness == cin = <<>> /\ cout = NoReturn
IdleProcessor == processor = <<>> /\ plast = <<>>
IdleThreads == pc = <<>> /\ call = <<>> /\ ret = <<>>
IdleQap == qap = <<>> /\ qpc = <<>>
IdleQuery == query = <<>>
IdleOverlap == ov = <<>>
IdleSetup == audio_analyzer = <<>> /\ initialized = <<>>
IdleCore == core = <<>>
IdleConsciousness == ci = <<>>
IdleTempo == tempo = <<>>
IdleLater == IdleSetup /\ IdleCore /\ IdleConsciousness /\ IdleTempo
Later == <<audio_analyzer, initialized, core, ci, tempo>>

(***************************************************************************)
(* Spec: one caller using one BreathingAnalyzer, call after call           *)
(***************************************************************************)
NoLast == [call |-> NoCall, ret |-> NoReturn]

Init ==
    /\ analyzers = [i \in {"a1"} |-> NewBreathingAnalyzer]
    /\ clock = [o \in {"a1"} |-> 0]
    /\ last = NoLast
    /\ IdleHarness /\ IdleProcessor /\ IdleThreads /\ IdleQap /\ IdleQuery /\ IdleOverlap
    /\ IdleLater

Others == <<cin, cout, pc, call, ret, qap, qpc, ov, Later>>

\* the clock reading a call stamps its result with: a recorded analysis gets
\* the next tick
Now(o, empty) == IF empty THEN clock[o] ELSE clock[o] + 1

\* i.analyzeBreathing(b) by the sequential caller: lock, body, unlock
SeqAnalyze(i, b) ==
    /\ analyzers[i].analyzer_mutex_ = NoThread
    /\ LET r == analyzeBreathing(analyzers[i], b, Now(i, b.empty))
       IN  /\ analyzers' = [analyzers EXCEPT ![i] = r.self]
           /\ last' = [call |-> [op |-> "analyzeBreathing", inst |-> i, arg |-> b],
                       ret |-> r.ret]
    /\ clock' = [clock EXCEPT ![i] = Now(i, b.empty)]
    /\ UNCHANGED <<processor, plast, query, Others>>

\* a threshold setter (returns void): lock, body, unlock
SeqSetter(i, after) ==
    /\ analyzers[i].analyzer_mutex_ = NoThread
    /\ analyzers' = [analyzers EXCEPT ![i] = after]
    /\ UNCHANGED <<clock, last, processor, plast, query, Others>>

SeqSetBreathingRateThresholds(i, v) ==
    SeqSetter(i, setBreathingRateThresholds(analyzers[i], v[1], v[2]))

SeqSetDepthThresholds(i, v) ==
    SeqSetter(i, setDepthThresholds(analyzers[i], v[1], v[2]))

SeqSetRapidBreathingThreshold(i, v) ==
    SeqSetter(i, setRapidBreathingThreshold(analyzers[i], v))

SeqSetIrregularityThreshold(i, v) ==
    SeqSetter(i, setIrregularityThreshold(analyzers[i], v))

Next ==
    \/ \E i \in DOMAIN analyzers, b \in Buffers :
           (b.empty \/ clock[i] < MaxCalls) /\ SeqAnalyze(i, b)
    \/ \E i \in DOMAIN analyzers, v \in RateThresholdValues :
           SeqSetBreathingRateThresholds(i, v)
    \/ \E i \in DOMAIN analyzers, v \in DepthThresholdValues : SeqSetDepthThresholds(i, v)
    \/ \E i \in DOMAIN analyzers, v \in RapidThresholdValues :
           SeqSetRapidBreathingThreshold(i, v)
    \/ \E i \in DOMAIN analyzers, v \in IrregularityThresholdValues :
           SeqSetIrregularityThreshold(i, v)

Spec == Init /\ [][Next]_vars

(***************************************************************************)
(* LongRun: a long signal fed frame by frame to one BreathingAnalyzer and  *)
(* one AdaptiveAudioProcessor, past the capacity of their histories        *)
(***************************************************************************)
\* frame k of a rising sweep: 6 + 1.2 k breaths per minute, growing louder
LongFrame(k) == Buffer(10 + 2 * k, 10 + k)

\* frame k of the processor's input: relaxed, excited and focused material in turn
LongInput(k) ==
    CASE k % 3 = 0 -> Input(25, 50, 7000, 10, 30000, 0)
      [] k % 3 = 1 -> Input(300, 50, 13000, 10, 100000, 500000)
      [] k % 3 = 2 -> Input(100, 80, 10000, 40, 250000, 0)

ConfidenceValues == {50, 90}

LongInit ==
    /\ analyzers = [i \in {"a1"} |-> NewBreathingAnalyzer]
    /\ clock = [o \in {"a1", "processor"} |-> 0]
    /\ last = NoLast
    /\ processor = NewAdaptiveAudioProcessor
    /\ plast = NoLast
    /\ IdleHarness /\ IdleThreads /\ IdleQap /\ IdleQuery /\ IdleOverlap
    /\ IdleLater

\* processor.processAudio(b) by the sequential caller: lock, body, unlock
SeqProcessAudio(b, confidence) ==
    /\ processor.processor_mutex_ = NoThread
    /\ LET r == processAudio(processor, b, confidence, Now("processor", b.empty))
       IN  /\ processor' = r.self
           /\ plast' = [call |-> [op |-> "processAudio", inst |-> "processor", arg |-> b],
                        ret |-> r.ret]
    /\ clock' = [clock EXCEPT !["processor"] = Now("processor", b.empty)]
    /\ UNCHANGED <<analyzers, last, query, Others>>

LongNext ==
    \/ \E i \in DOMAIN analyzers : SeqAnalyze(i, EmptyBuffer)
    \/ \E i \in DOMAIN analyzers :
           /\ clock[i] < analyzers[i].history_size_ + MaxLongExtra
           /\ SeqAnalyze(i, LongFrame(clock[i] + 1))
    \/ SeqProcessAudio(EmptyInput, 0)
    \/ \E c \in ConfidenceValues :
           /\ clock["processor"] < processor.history_size_ + MaxLongExtra
           /\ SeqProcessAudio(LongInput(clock["processor"] + 1), c)

LongRun == LongInit /\ [][LongNext]_vars

(***************************************************************************)
(* Overlap: one analyzeBreathingWithOverlap call on a BreathingAnalyzer     *)
(* constructed with frame size fft_size, followed frame by frame           *)
(***************************************************************************)
\* frame sizes given to the constructor: powers of two
WindowSizes == {1, 2, 4, 8}

\* std::vector<double>(begin + start, begin + start + length): the samples
\* from start on, known through the analysis of the frame beginning there
WindowBuffer(start, length) == IF length = 0 THEN EmptyBuffer ELSE LongFrame(start)

OverlapInit ==
    /\ \E fft_size \in WindowSizes :
          analyzers = [i \in {"a1"} |->
                          [NewBreathingAnalyzer EXCEPT !.analysis_window_size_ = fft_size]]
    /\ clock = [o \in {"a1"} |-> 0]
    /\ last = NoLast
    /\ \E size \in 0..MaxSamples :
          ov = [pc |-> "call", inst |-> "a1", size |-> size, start |-> 0, hop_size |-> 0,
                results |-> <<>>]
    /\ IdleHarness /\ IdleProcessor /\ IdleThreads /\ IdleQap /\ IdleQuery
    /\ IdleLater

NotOverlap == <<last, cin, cout, processor, plast, pc, call, ret, qap, qpc, query, Later>>

\* mutant: the newest result is put in front
PushBack_Front(results, result) == <<result>> \o results

\* results.push_back(result)
PushBack(results, result) == Append(results, result)

\* mutant: a frame ending at the last sample is left out
LoopCondition_Strict(start, window, size) == start + window < size

\* start + analysis_window_size_ <= audio_buffer.size()
LoopCondition(start, window, size) == start + window <= size

\* the call up to the loop: a buffer shorter than one frame is analysed whole
\* and the call returns; otherwise hop_size is set and the loop entered
OverlapEnter ==
    /\ ov.pc = "call"
    /\ LET i == ov.inst
           self == analyzers[i]
       IN  IF ov.size < self.analysis_window_size_
           THEN LET b == WindowBuffer(0, ov.size)
                    r == analyzeBreathing(self, b, Now(i, b.empty))
                IN  /\ self.analyzer_mutex_ = NoThread
                    /\ analyzers' = [analyzers EXCEPT ![i] = r.self]
                    /\ clock' = [clock EXCEPT ![i] = Now(i, b.empty)]
                    /\ ov' = [ov EXCEPT !.pc = "returned",
                                        !.results = PushBack(@, r.ret)]
           ELSE /\ ov' = [ov EXCEPT !.pc = "loop", !.start = 0,
                                    !.hop_size = self.analysis_window_size_ \div 4]
                /\ UNCHANGED <<analyzers, clock>>
    /\ UNCHANGED NotOverlap

\* one iteration of the for loop: the frame at start is analysed, its result
\* pushed, and start += hop_size
OverlapFrame ==
    /\ ov.pc = "loop"
    /\ Len(ov.results) < MaxFrames
    /\ LET i == ov.inst
           self == analyzers[i]
           b == WindowBuffer(ov.start, self.analysis_window_size_)
           r == analyzeBreathing(self, b, Now(i, b.empty))
       IN  /\ LoopCondition(ov.start, self.analysis_window_size_, ov.size)
           /\ self.analyzer_mutex_ = NoThread
           /\ analyzers' = [analyzers EXCEPT ![i] = r.self]
           /\ clock' = [clock EXCEPT ![i] = Now(i, b.empty)]
           /\ ov' = [ov EXCEPT !.results = PushBack(@, r.ret),
                               !.start = @ + ov.hop_size]
    /\ UNCHANGED NotOverlap

\* the loop condition fails: return results
OverlapReturn ==
    /\ ov.pc = "loop"
    /\ ~LoopCondition(ov.start, analyzers[ov.inst].analysis_window_size_, ov.size)
    /\ ov' = [ov EXCEPT !.pc = "returned"]
    /\ UNCHANGED <<analyzers, clock, NotOverlap>>

OverlapNext ==
    \/ OverlapEnter
    \/ OverlapFrame
    \/ OverlapReturn

Overlap == OverlapInit /\ [][OverlapNext]_vars

(***************************************************************************)
(* Session: one caller working with one BreathingAnalyzer and one          *)
(* AdaptiveAudioProcessor: analyses, preset changes and queries            *)
(***************************************************************************)
SessionInputs == {EmptyInput, LongInput(0), LongInput(1), LongInput(2)}
\* a user preset replacing the CALM entry of the table
PresetValues == {<<"CALM", Params(60, 100, 0, 0, 0, 0)>>}

SessionInit ==
    /\ analyzers = [i \in {"a1"} |-> NewBreathingAnalyzer]
    /\ clock = [o \in {"a1", "processor"} |-> 0]
    /\ last = NoLast
    /\ processor = NewAdaptiveAudioProcessor
    /\ plast = NoLast
    /\ query = [call |-> NoCall, ret |-> NoResult, blocked |-> FALSE, seq |-> 0]
    /\ IdleHarness /\ IdleThreads /\ IdleQap /\ IdleOverlap
    /\ IdleLater

\* the getter named g applied to the object
CallGetter(self, g) ==
    CASE g = "getCurrentBreathingState" -> getCurrentBreathingState(self)
      [] g = "getBreathingPattern" -> getBreathingPattern(self)
      [] g = "getAverageBreathingRate" -> getAverageBreathingRate(self)
      [] g = "getStressLevel" -> getStressLevel(self)
      [] g = "getRelaxationLevel" -> getRelaxationLevel(self)

\* i.g() by the sequential caller: lock, body, unlock
QueryGetter(i, g) ==
    /\ analyzers[i].analyzer_mutex_ = NoThread
    /\ query' = [call |-> [op |-> g, inst |-> i, arg |-> <<>>],
                 ret |-> Returned(CallGetter(analyzers[i], g)), blocked |-> FALSE, seq |-> 1 - query.seq]
    /\ UNCHANGED <<analyzers, clock, last, processor, plast, Others>>

\* i.getStatistics() by the sequential caller.  On an empty history the
\* unassigned struct is returned.  Otherwise getAverageBreathingRate locks
\* analyzer_mutex_ again: the caller blocks forever inside lock() owning the mutex, or
\* lock() throws std::system_error and the unwinding releases the mutex.
QueryStatistics(i) ==
    /\ analyzers[i].analyzer_mutex_ = NoThread
    /\ LET c == [op |-> "getStatistics", inst |-> i, arg |-> <<>>]
       IN  IF analyzers[i].analysis_history_ = <<>>
           THEN /\ \E k \in DOMAIN BreathingStatistics :
                      query' = [call |-> c, ret |-> Returned(BreathingStatistics[k]),
                                blocked |-> FALSE, seq |-> 1 - query.seq]
                /\ UNCHANGED analyzers
           ELSE \/ /\ query' = [call |-> c, ret |-> NoResult, blocked |-> TRUE,
                             seq |-> 1 - query.seq]
                   /\ analyzers' = [analyzers EXCEPT ![i].analyzer_mutex_ = "caller"]
                \/ /\ query' = [call |-> c, ret |-> Thrown("system_error"), blocked |-> FALSE, seq |-> 1 - query.seq]
                   /\ UNCHANGED analyzers
    /\ UNCHANGED <<clock, last, processor, plast, Others>>

\* processor.getStatistics() by the sequential caller: lock, body, unlock
QueryProcessorStatistics ==
    /\ processor.processor_mutex_ = NoThread
    /\ query' = [call |-> [op |-> "getStatistics", inst |-> "processor", arg |-> <<>>],
                 ret |-> Returned(AdaptiveAudioProcessor_getStatistics(processor)),
                 blocked |-> FALSE, seq |-> 1 - query.seq]
    /\ UNCHANGED <<analyzers, clock, last, processor, plast, Others>>

\* processor.setEmotionPreset(emotion, parameters): lock, body, unlock
SeqSetEmotionPreset(emotion, parameters) ==
    /\ processor.processor_mutex_ = NoThread
    /\ processor' = AdaptiveAudioProcessor_setEmotionPreset(processor, emotion, parameters)
    /\ UNCHANGED <<analyzers, clock, last, plast, query, Others>>

\* the caller is not blocked inside a call
Running == ~query.blocked

SessionNext ==
    \/ \E i \in DOMAIN analyzers, b \in Buffers :
           Running /\ (b.empty \/ clock[i] < MaxSessionCalls) /\ SeqAnalyze(i, b)
    \/ \E b \in SessionInputs :
           /\ Running /\ (b.empty \/ clock["processor"] < MaxSessionCalls)
           /\ SeqProcessAudio(b, 50)
    \/ \E v \in PresetValues : Running /\ SeqSetEmotionPreset(v[1], v[2])
    \/ \E i \in DOMAIN analyzers, g \in Getters : Running /\ QueryGetter(i, g)
    \/ \E i \in DOMAIN analyzers : Running /\ QueryStatistics(i)
    \/ Running /\ QueryProcessorStatistics

Session == SessionInit /\ [][SessionNext]_vars

(***************************************************************************)
(* Classify: the state classifier applied to inputs and threshold          *)
(* configurations drawn from bounded sets                                  *)
(***************************************************************************)
\* the configurations the setters can install, the defaults included
ThresholdConfigs ==
    LET d == initializeDefaultThresholds
    IN  {[normal_breathing_rate_min_ |-> r[1], normal_breathing_rate_max_ |-> r[2],
          deep_breathing_threshold_ |-> dp[1], shallow_breathing_threshold_ |-> dp[2],
          rapid_breathing_threshold_ |-> p, irregularity_threshold_ |-> g] :
            r \in RateThresholdValues
                     \cup {<<d.normal_breathing_rate_min_, d.normal_breathing_rate_max_>>},
            dp \in DepthThresholdValues
                     \cup {<<d.deep_breathing_threshold_, d.shallow_breathing_threshold_>>},
            p \in RapidThresholdValues \cup {d.rapid_breathing_threshold_},
            g \in IrregularityThresholdValues \cup {d.irregularity_threshold_}}

RateInputs == {400, 750, 800, 900, 1500, 1900, 2000, 2100, 2300, 2500, 2600, 3000}
DepthInputs == {0, 20, 30, 35, 50, 65, 70, 80, 100}
RegularityInputs == {0, 50, 70, 80, 90, 100}

ClassifyInit ==
    /\ cin \in [th : ThresholdConfigs, rate : RateInputs, depth : DepthInputs,
                 regularity : RegularityInputs]
    /\ cout = NoReturn
    /\ analyzers = <<>> /\ clock = <<>> /\ last = NoLast
    /\ IdleProcessor /\ IdleThreads /\ IdleQap /\ IdleQuery /\ IdleOverlap
    /\ IdleLater

ClassifyState ==
    /\ cout = NoReturn
    /\ cout' = classifyBreathingState(cin.th, cin.rate, cin.depth, cin.regularity)
    /\ UNCHANGED <<analyzers, clock, last, cin, processor, plast, pc, call, ret, qap, qpc,
                   query, ov, Later>>

ClassifyNext == ClassifyState

Classify == ClassifyInit /\ [][ClassifyNext]_vars

(***************************************************************************)
(* Pattern: the pattern classifier applied to rate histories drawn from a  *)
(* bounded set of rates in the range [4,60] of calculateBreathingRate      *)
(***************************************************************************)
RateSamples == {400, 600, 800, 1000, 1200, 1400, 1800, 2100, 2500, 3000}

RECURSIVE RateHistories(_)
\* the rate histories of length up to n
RateHistories(n) ==
    IF n = 0 THEN {<<>>}
    ELSE LET shorter == RateHistories(n - 1)
         IN  shorter \cup {Append(h, x) : h \in {g \in shorter : Len(g) = n - 1},
                                          x \in RateSamples}

PatternInit ==
    /\ cin \in RateHistories(MaxRateHistory)
    /\ cout = NoReturn
    /\ analyzers = <<>> /\ clock = <<>> /\ last = NoLast
    /\ IdleProcessor /\ IdleThreads /\ IdleQap /\ IdleQuery /\ IdleOverlap
    /\ IdleLater

ClassifyPattern ==
    /\ cout = NoReturn
    /\ cout' = classifyBreathingPattern(cin)
    /\ UNCHANGED <<analyzers, clock, last, cin, processor, plast, pc, call, ret, qap, qpc,
                   query, ov, Later>>

PatternNext == ClassifyPattern

Pattern == PatternInit /\ [][PatternNext]_vars

(***************************************************************************)
(* Vote: detectEmotionalState applied to analysis results drawn from       *)
(* bounded sets around the limits of the three heuristics                  *)
(***************************************************************************)
FrequencyInputs == {25, 100, 300}
VolumeInputs == {50, 80}
TempoInputs == {7000, 10000, 13000}
ZeroCrossingInputs == {10, 40}
CentroidInputs == {30000, 100000, 250000}
RolloffInputs == {0, 500000}

VoteInit ==
    /\ cin \in {Input(f, v, t, z, c, r) :
                    f \in FrequencyInputs, v \in VolumeInputs, t \in TempoInputs,
                    z \in ZeroCrossingInputs, c \in CentroidInputs, r \in RolloffInputs}
    /\ cout = NoReturn
    /\ analyzers = <<>> /\ clock = <<>> /\ last = NoLast
    /\ IdleProcessor /\ IdleThreads /\ IdleQap /\ IdleQuery /\ IdleOverlap
    /\ IdleLater

DetectEmotion ==
    /\ cout = NoReturn
    /\ cout' = detectEmotionalState(cin)
    /\ UNCHANGED <<analyzers, clock, last, cin, processor, plast, pc, call, ret, qap, qpc,
                   query, ov, Later>>

VoteNext == DetectEmotion

Vote == VoteInit /\ [][VoteNext]_vars

(***************************************************************************)
(* Concurrent: threads calling the public methods of BreathingAnalyzer     *)
(* objects.  A call is: begin, acquire the lock_guard on analyzer_mutex_   *)
(* of its object, run the body and release on return.                      *)
(***************************************************************************)
Instances == {"a1", "a2"}
ThreadBuffers == {EmptyBuffer, Buffer(32, 17)}

\* the calls a thread can issue: method and argument
ThreadCalls ==
    {<<"analyzeBreathing", b>> : b \in ThreadBuffers}
    \cup {<<"setBreathingRateThresholds", v>> : v \in RateThresholdValues}
    \cup {<<"setDepthThresholds", v>> : v \in DepthThresholdValues}
    \cup {<<"setRapidBreathingThreshold", v>> : v \in RapidThresholdValues}
    \cup {<<"setIrregularityThreshold", v>> : v \in IrregularityThresholdValues}
    \cup {<<g, <<>> >> : g \in Getters}
    \cup {<<"getStatistics", <<>> >>}

IdleCall == [op |-> "none", inst |-> "none", arg |-> <<>>, n |-> 0]

ConcurrentInit ==
    /\ analyzers = [i \in Instances |-> NewBreathingAnalyzer]
    /\ clock = [o \in Instances |-> 0]
    /\ last = NoLast
    /\ pc = [t \in Threads |-> "idle"]
    /\ call = [t \in Threads |-> IdleCall]
    /\ ret = [t \in Threads |-> NoResult]
    /\ IdleHarness /\ IdleProcessor /\ IdleQap /\ IdleQuery /\ IdleOverlap
    /\ IdleLater

Rest == <<last, cin, cout, processor, plast, qap, qpc, query, ov, Later>>

\* thread t calls method c[1] of object i with argument c[2]
Begin(t, i, c) ==
    /\ pc[t] = "idle"
    /\ call[t].n < MaxThreadOps
    /\ pc' = [pc EXCEPT ![t] = "lock"]
    /\ call' = [call EXCEPT ![t] = [op |-> c[1], inst |-> i, arg |-> c[2], n |-> @.n + 1]]
    /\ ret' = [ret EXCEPT ![t] = NoResult]
    /\ UNCHANGED <<analyzers, clock, Rest>>

\* mutant: the method runs without waiting for the mutex
CanLock_Always(mutex, t) == TRUE

\* std::mutex::lock succeeds when no thread owns the mutex
CanLock(mutex, t) == mutex = NoThread

\* std::lock_guard<std::mutex> lock(analyzer_mutex_);
Lock(t) ==
    /\ pc[t] = "lock"
    /\ CanLock(analyzers[call[t].inst].analyzer_mutex_, t)
    /\ analyzers' = [analyzers EXCEPT ![call[t].inst].analyzer_mutex_ = t]
    /\ pc' = [pc EXCEPT ![t] = "body"]
    /\ UNCHANGED <<clock, call, ret, Rest>>

\* the body ends, by return or by exception, and ~lock_guard releases the mutex
Return(t, after, value) ==
    /\ analyzers' = [analyzers EXCEPT ![call[t].inst] =
                        [after EXCEPT !.analyzer_mutex_ = NoThread]]
    /\ ret' = [ret EXCEPT ![t] = value]
    /\ pc' = [pc EXCEPT ![t] = "idle"]
    /\ UNCHANGED <<call, Rest>>

BodyAnalyze(t) ==
    /\ pc[t] = "body" /\ call[t].op = "analyzeBreathing"
    /\ LET i == call[t].inst
           r == analyzeBreathing(analyzers[i], call[t].arg, Now(i, call[t].arg.empty))
       IN  /\ Return(t, r.self, Returned(r.ret))
           /\ clock' = [clock EXCEPT ![i] = Now(i, call[t].arg.empty)]

BodySetter(t) ==
    /\ pc[t] = "body"
    /\ LET self == analyzers[call[t].inst]
           v == call[t].arg
       IN  \/ /\ call[t].op = "setBreathingRateThresholds"
              /\ Return(t, setBreathingRateThresholds(self, v[1], v[2]), Returned(NoReturn))
           \/ /\ call[t].op = "setDepthThresholds"
              /\ Return(t, setDepthThresholds(self, v[1], v[2]), Returned(NoReturn))
           \/ /\ call[t].op = "setRapidBreathingThreshold"
              /\ Return(t, setRapidBreathingThreshold(self, v), Returned(NoReturn))
           \/ /\ call[t].op = "setIrregularityThreshold"
              /\ Return(t, setIrregularityThreshold(self, v), Returned(NoReturn))
    /\ UNCHANGED clock

BodyGetter(t) ==
    /\ pc[t] = "body"
    /\ LET self == analyzers[call[t].inst]
       IN  \/ /\ call[t].op = "getCurrentBreathingState"
              /\ Return(t, self, Returned(getCurrentBreathingState(self)))
           \/ /\ call[t].op = "getBreathingPattern"
              /\ Return(t, self, Returned(getBreathingPattern(self)))
           \/ /\ call[t].op = "getAverageBreathingRate"
              /\ Return(t, self, Returned(getAverageBreathingRate(self)))
           \/ /\ call[t].op = "getStressLevel"
              /\ Return(t, self, Returned(getStressLevel(self)))
           \/ /\ call[t].op = "getRelaxationLevel"
              /\ Return(t, self, Returned(getRelaxationLevel(self)))
    /\ UNCHANGED clock

\* getStatistics up to its call of getAverageBreathingRate: an empty history
\* returns the unassigned struct, otherwise the nested call is entered
BodyGetStatistics(t) ==
    /\ pc[t] = "body" /\ call[t].op = "getStatistics"
    /\ IF analyzers[call[t].inst].analysis_history_ = <<>>
       THEN \E k \in DOMAIN BreathingStatistics :
                Return(t, analyzers[call[t].inst], Returned(BreathingStatistics[k]))
       ELSE /\ pc' = [pc EXCEPT ![t] = "relock"]
            /\ UNCHANGED <<analyzers, call, ret, Rest>>
    /\ UNCHANGED clock

\* getAverageBreathingRate, called from getStatistics, locks analyzer_mutex_
\* which the calling thread already owns.  Locking a std::mutex one owns is
\* undefined: the thread blocks forever inside lock(), or lock() throws
\* std::system_error and the exception leaves getStatistics.
Relock(t) ==
    /\ pc[t] = "relock"
    /\ \/ /\ pc' = [pc EXCEPT ![t] = "deadlocked"]
          /\ UNCHANGED <<analyzers, call, ret, Rest>>
       \/ Return(t, analyzers[call[t].inst], Thrown("system_error"))
    /\ UNCHANGED clock

ConcurrentNext ==
    \/ \E t \in Threads, i \in Instances, c \in ThreadCalls : Begin(t, i, c)
    \/ \E t \in Threads : Lock(t)
    \/ \E t \in Threads : BodyAnalyze(t)
    \/ \E t \in Threads : BodySetter(t)
    \/ \E t \in Threads : BodyGetter(t)
    \/ \E t \in Threads : BodyGetStatistics(t)
    \/ \E t \in Threads : Relock(t)

Concurrent == ConcurrentInit /\ [][ConcurrentNext]_vars

(***************************************************************************)
(* ProcessorThreads: threads calling the public methods of one             *)
(* AdaptiveAudioProcessor.  processAudio, setEmotionPreset and             *)
(* getStatistics take the lock_guard on processor_mutex_;                  *)
(* getAdaptationParameters reads emotion_presets_ without it.              *)
(***************************************************************************)
ProcessorCalls ==
    {<<"processAudio", b>> : b \in {EmptyInput, LongInput(1)}}
    \cup {<<"setEmotionPreset", v>> : v \in PresetValues}
    \cup {<<"getAdaptationParameters", e>> : e \in {"CALM", "UNKNOWN"}}
    \cup {<<"getStatistics", <<>> >>}

\* raced: a write of emotion_presets_ went on while this lookup was reading it
IdleProcessorCall == [op |-> "none", arg |-> <<>>, n |-> 0, raced |-> FALSE]

ProcessorThreadsInit ==
    /\ processor = NewAdaptiveAudioProcessor
    /\ plast = NoLast
    /\ clock = [o \in {"processor"} |-> 0]
    /\ pc = [t \in Threads |-> "idle"]
    /\ call = [t \in Threads |-> IdleProcessorCall]
    /\ ret = [t \in Threads |-> NoResult]
    /\ analyzers = <<>> /\ last = NoLast
    /\ IdleHarness /\ IdleQap /\ IdleQuery /\ IdleOverlap
    /\ IdleLater

NotProcessor == <<analyzers, last, cin, cout, plast, qap, qpc, query, ov, Later>>

\* thread t calls method c[1] with argument c[2]; getAdaptationParameters
\* goes straight to emotion_presets_.find, the others to their lock_guard
ProcessorBegin(t, c) ==
    /\ pc[t] = "idle"
    /\ call[t].n < MaxThreadOps
    /\ pc' = [pc EXCEPT ![t] = IF c[1] = "getAdaptationParameters" THEN "find" ELSE "lock"]
    /\ call' = [call EXCEPT ![t] =
                    [op |-> c[1], arg |-> c[2], n |-> @.n + 1,
                     raced |-> \E u \in Threads : pc[u] = "writing"]]
    /\ ret' = [ret EXCEPT ![t] = NoResult]
    /\ UNCHANGED <<processor, clock, NotProcessor>>

\* std::lock_guard<std::mutex> lock(processor_mutex_);
ProcessorLock(t) ==
    /\ pc[t] = "lock"
    /\ CanLock(processor.processor_mutex_, t)
    /\ processor' = [processor EXCEPT !.processor_mutex_ = t]
    /\ pc' = [pc EXCEPT ![t] = IF call[t].op = "setEmotionPreset" THEN "write" ELSE "body"]
    /\ UNCHANGED <<clock, call, ret, NotProcessor>>

\* the body ends and ~lock_guard releases processor_mutex_
ProcessorReturn(t, after, value) ==
    /\ processor' = [after EXCEPT !.processor_mutex_ = NoThread]
    /\ ret' = [ret EXCEPT ![t] = value]
    /\ pc' = [pc EXCEPT ![t] = "idle"]
    /\ UNCHANGED <<call, NotProcessor>>

BodyProcessAudio(t) ==
    /\ pc[t] = "body" /\ call[t].op = "processAudio"
    /\ LET r == processAudio(processor, call[t].arg, 50, Now("processor", call[t].arg.empty))
       IN  /\ ProcessorReturn(t, r.self, Returned(r.ret))
           /\ clock' = [clock EXCEPT !["processor"] = Now("processor", call[t].arg.empty)]

BodyProcessorStatistics(t) ==
    /\ pc[t] = "body" /\ call[t].op = "getStatistics"
    /\ ProcessorReturn(t, processor, Returned(AdaptiveAudioProcessor_getStatistics(processor)))
    /\ UNCHANGED clock

\* emotion_presets_[emotion] = parameters; begins: the map is being modified,
\* under the eyes of every lookup in progress
WriteBegin(t) ==
    /\ pc[t] = "write"
    /\ pc' = [pc EXCEPT ![t] = "writing"]
    /\ call' = [u \in Threads |->
                    IF pc[u] = "find" THEN [call[u] EXCEPT !.raced = TRUE] ELSE call[u]]
    /\ UNCHANGED <<processor, clock, ret, NotProcessor>>

\* the assignment is complete; setEmotionPreset returns
WriteEnd(t) ==
    /\ pc[t] = "writing"
    /\ ProcessorReturn(t, AdaptiveAudioProcessor_setEmotionPreset(processor, call[t].arg[1],
                                                                   call[t].arg[2]),
                       Returned(NoReturn))
    /\ UNCHANGED clock

\* getAdaptationParameters: find and return, no lock taken.  A lookup that ran
\* while the map was written is a data race: it may see the old entry, the
\* new one, or a node in the middle of its update.
Lookup(t) ==
    /\ pc[t] = "find"
    /\ LET value == getAdaptationParameters(processor, call[t].arg)
       IN  \/ ret' = [ret EXCEPT ![t] = Returned(value)]
           \/ /\ call[t].raced
              /\ \E v \in PresetValues : ret' = [ret EXCEPT ![t] = Returned(v[2])]
           \/ /\ call[t].raced
              /\ ret' = [ret EXCEPT ![t] = Returned(Indeterminate)]
    /\ pc' = [pc EXCEPT ![t] = "idle"]
    /\ UNCHANGED <<processor, clock, call, NotProcessor>>

ProcessorThreadsNext ==
    \/ \E t \in Threads, c \in ProcessorCalls : ProcessorBegin(t, c)
    \/ \E t \in Threads : ProcessorLock(t)
    \/ \E t \in Threads : BodyProcessAudio(t)
    \/ \E t \in Threads : BodyProcessorStatistics(t)
    \/ \E t \in Threads : WriteBegin(t)
    \/ \E t \in Threads : WriteEnd(t)
    \/ \E t \in Threads : Lookup(t)

ProcessorThreads == ProcessorThreadsInit /\ [][ProcessorThreadsNext]_vars

(***************************************************************************)
(* Background: the QuantumAcousticProcessor, its processing thread and a   *)
(* thread calling addField, getProcessedFields and setProcessingEnabled    *)
(***************************************************************************)
\* a QuantumSoundField: the argument of its unit amplitude and its phase, both
\* in quarter turns, and its quantum state
Field(phase, state) == [amplitude |-> 0, phase |-> phase, quantum_state |-> state]
FieldInputs == {Field(1, "SUPERPOSITION"), Field(0, "COHERENT")}
NoField == <<>>

\* QuantumAcousticProcessor::QuantumAcousticProcessor: the flag is set and the
\* processing thread is started at processingLoop
NewQuantumAcousticProcessor ==
    [fields_ |-> <<>>, processing_enabled_ |-> TRUE, fields_mutex_ |-> NoThread]

BackgroundInit ==
    /\ qap = NewQuantumAcousticProcessor
    /\ qpc = [loop |-> "test", caller |-> "idle", arg |-> NoField]
    /\ analyzers = <<>> /\ clock = <<>> /\ last = NoLast
    /\ IdleHarness /\ IdleProcessor /\ IdleThreads /\ IdleQuery /\ IdleOverlap
    /\ IdleLater

NotQap == <<analyzers, clock, last, cin, cout, processor, plast, pc, call, ret, query, ov,
           Later>>

\* while (processing_enabled_)
LoopTest ==
    /\ qpc.loop = "test"
    /\ qpc' = [qpc EXCEPT !.loop = IF qap.processing_enabled_ THEN "lock" ELSE "exited"]
    /\ UNCHANGED <<qap, NotQap>>

\* std::lock_guard<std::mutex> lock(fields_mutex_); at the top of the loop body
LoopLock ==
    /\ qpc.loop = "lock"
    /\ qap.fields_mutex_ = NoThread
    /\ qap' = [qap EXCEPT !.fields_mutex_ = "loop"]
    /\ qpc' = [qpc EXCEPT !.loop = "process"]
    /\ UNCHANGED NotQap

\* one field after the pass of the for loop over it
Evolve(field, collapse) ==
    [field EXCEPT
        !.amplitude = (@ + field.phase) % 4,
        !.quantum_state = IF @ = "SUPERPOSITION" /\ collapse THEN "COLLAPSED" ELSE @]

\* for (auto& field : fields_) ...; dist(gen) < 0.1 decides each collapse
LoopProcess ==
    /\ qpc.loop = "process"
    /\ \E collapse \in [1..Len(qap.fields_) -> BOOLEAN] :
          qap' = [qap EXCEPT !.fields_ =
                    [k \in 1..Len(qap.fields_) |-> Evolve(qap.fields_[k], collapse[k])]]
    /\ qpc' = [qpc EXCEPT !.loop = "sleep"]
    /\ UNCHANGED NotQap

\* sleep_for(16 ms) ends; lock is a local of the loop body, so ~lock_guard
\* releases only now, at the closing brace after the sleep
LoopSleep ==
    /\ qpc.loop = "sleep"
    /\ qap' = [qap EXCEPT !.fields_mutex_ = NoThread]
    /\ qpc' = [qpc EXCEPT !.loop = "test"]
    /\ UNCHANGED NotQap

\* the caller enters addField(field)
CallerBeginAdd(field) ==
    /\ qpc.caller = "idle"
    /\ Len(qap.fields_) < MaxFields
    /\ qpc' = [qpc EXCEPT !.caller = "add_lock", !.arg = field]
    /\ UNCHANGED <<qap, NotQap>>

\* the caller enters getProcessedFields()
CallerBeginGet ==
    /\ qpc.caller = "idle"
    /\ qpc' = [qpc EXCEPT !.caller = "get_lock"]
    /\ UNCHANGED <<qap, NotQap>>

\* std::lock_guard<std::mutex> lock(fields_mutex_); in addField and getProcessedFields
CallerLock ==
    /\ qpc.caller \in {"add_lock", "get_lock"}
    /\ qap.fields_mutex_ = NoThread
    /\ qap' = [qap EXCEPT !.fields_mutex_ = "caller"]
    /\ qpc' = [qpc EXCEPT !.caller = IF @ = "add_lock" THEN "add_body" ELSE "get_body"]
    /\ UNCHANGED NotQap

\* fields_.push_back(field); return
CallerAddBody ==
    /\ qpc.caller = "add_body"
    /\ qap' = [qap EXCEPT !.fields_ = Append(@, qpc.arg), !.fields_mutex_ = NoThread]
    /\ qpc' = [qpc EXCEPT !.caller = "idle", !.arg = NoField]
    /\ UNCHANGED NotQap

\* return fields_;
CallerGetBody ==
    /\ qpc.caller = "get_body"
    /\ qap' = [qap EXCEPT !.fields_mutex_ = NoThread]
    /\ qpc' = [qpc EXCEPT !.caller = "idle"]
    /\ UNCHANGED NotQap

\* processing_enabled_ = enabled; (an atomic store, no lock)
setProcessingEnabled(enabled) ==
    /\ qpc.caller = "idle"
    /\ qap' = [qap EXCEPT !.processing_enabled_ = enabled]
    /\ UNCHANGED <<qpc, NotQap>>

BackgroundNext ==
    \/ LoopTest
    \/ LoopLock
    \/ LoopProcess
    \/ LoopSleep
    \/ \E f \in FieldInputs : CallerBeginAdd(f)
    \/ CallerBeginGet
    \/ CallerLock
    \/ CallerAddBody
    \/ CallerGetBody
    \/ \E e \in BOOLEAN : setProcessingEnabled(e)

Background == BackgroundInit /\ [][BackgroundNext]_vars

(***************************************************************************)
(* Setup: construction of a BreathingAnalyzer and an AdaptiveAudioProcessor *)
(* with a frame size and a sample rate, their initialize calls and the     *)
(* analyses made afterwards.  Each object owns a spectral AudioAnalyzer:   *)
(* its class is declared in anantasound_core.hpp and its methods follow    *)
(* the description of the spectral analyzer in the specification.          *)
(***************************************************************************)
MaxSetupCalls == 2    \* recorded analyses per object after construction

IsPowerOfTwo(n) == \E k \in 0..20 : n = 2 ^ k

\* AudioAnalyzer(fft_size, sample_rate): the constructor keeps its arguments
\* and an analysis frequency range; no window is computed yet
NewAudioAnalyzer(fft_size, sample_rate, range) ==
    [fft_size_ |-> fft_size,
     sample_rate_ |-> sample_rate,
     min_frequency_ |-> range[1],
     max_frequency_ |-> range[2],
     window_function_ |-> 0]

\* the frequency range a fresh AudioAnalyzer may hold: the audible band or
\* already the breathing band
DefaultFrequencyRanges == {<<2000, 2000000>>, <<10, 100>>}

AudioAnalyzer_setFrequencyRange(self, min_freq, max_freq) ==
    [self EXCEPT !.min_frequency_ = min_freq, !.max_frequency_ = max_freq]

\* validates the frame size and the sample rate, then computes the window
AudioAnalyzer_initialize(self) ==
    IF IsPowerOfTwo(self.fft_size_) /\ self.sample_rate_ > 0
    THEN [self |-> [self EXCEPT !.window_function_ = self.fft_size_], ret |-> TRUE]
    ELSE [self |-> self, ret |-> FALSE]

min_breathing_frequency_ == 10
max_breathing_frequency_ == 100

\* BreathingAnalyzer::initialize on the AudioAnalyzer the object owns
BreathingAnalyzer_initialize(audio) ==
    AudioAnalyzer_initialize(
        AudioAnalyzer_setFrequencyRange(audio, min_breathing_frequency_,
                                        max_breathing_frequency_))

\* AdaptiveAudioProcessor::initialize on the AudioAnalyzer the object owns
AdaptiveAudioProcessor_initialize(audio) == AudioAnalyzer_initialize(audio)

FrameSizes == {1000, 1024}
SampleRates == {0, 44100}

BoolName(b) == IF b THEN "true" ELSE "false"

SetupInit ==
    /\ analyzers = [i \in {"a1"} |-> NewBreathingAnalyzer]
    /\ processor = NewAdaptiveAudioProcessor
    /\ clock = [o \in {"a1", "processor"} |-> 0]
    /\ last = NoLast
    /\ plast = NoLast
    /\ \E fft_size \in FrameSizes, sample_rate \in SampleRates,
          range \in DefaultFrequencyRanges :
           audio_analyzer = [o \in {"a1", "processor"} |->
                                 NewAudioAnalyzer(fft_size, sample_rate, range)]
    /\ initialized = [o \in {"a1", "processor"} |-> "none"]
    /\ IdleHarness /\ IdleThreads /\ IdleQap /\ IdleQuery /\ IdleOverlap
    /\ IdleCore /\ IdleConsciousness /\ IdleTempo

NotSetup == <<analyzers, clock, last, cin, cout, processor, plast, pc, call, ret, qap, qpc,
             query, ov, core, ci, tempo>>

SeqInitialize(o, r) ==
    /\ audio_analyzer' = [audio_analyzer EXCEPT ![o] = r.self]
    /\ initialized' = [initialized EXCEPT ![o] = BoolName(r.ret)]
    /\ UNCHANGED NotSetup

SeqBreathingInitialize(i) ==
    SeqInitialize(i, BreathingAnalyzer_initialize(audio_analyzer[i]))

SeqProcessorInitialize ==
    SeqInitialize("processor", AdaptiveAudioProcessor_initialize(audio_analyzer["processor"]))

SetupNext ==
    \/ \E i \in DOMAIN analyzers : SeqBreathingInitialize(i)
    \/ SeqProcessorInitialize
    \/ \E i \in DOMAIN analyzers, b \in Buffers :
           (b.empty \/ clock[i] < MaxSetupCalls) /\ SeqAnalyze(i, b)
    \/ SeqProcessAudio(EmptyInput, 0)
    \/ \E c \in ConfidenceValues :
           /\ clock["processor"] < MaxSetupCalls
           /\ SeqProcessAudio(LongInput(clock["processor"] + 1), c)

Setup == SetupInit /\ [][SetupNext]_vars


(***************************************************************************)
(* AnantaSoundCore: the object and the bodies of its public methods.       *)
(* Times are in thousandths of a second, amplitudes in hundredths.         *)
(***************************************************************************)
MaxInterference == 2  \* interference fields added to the core
MaxCoreCalls == 6     \* public calls made on the core by the sequential caller

NewAnantaSoundCore ==
    [is_initialized_ |-> FALSE,
     interference_fields_ |-> <<>>,
     sound_fields_ |-> <<>>,
     acoustic_properties_ |-> {},
     quantum_uncertainty_ |-> 10,
     time_accumulator |-> 0,
     core_mutex_ |-> NoThread]

\* an InterferenceField, by the quantum states of its source fields
InterferenceField(states) == [source_fields_ |-> states]

InterferenceField_updateQuantumState(field, dt) ==
    [field EXCEPT !.source_fields_ =
        [k \in DOMAIN @ |-> IF @[k] = "EXCITED" /\ dt > 100 THEN "GROUND" ELSE @[k]]]

\* createQuantumSoundField: amplitude 1, the given position and state
createQuantumSoundField(position, state) ==
    [amplitude |-> One, quantum_state |-> state, position |-> position]

AnantaSoundCore_initialize(self) ==
    IF self.is_initialized_
    THEN [self |-> self, ret |-> TRUE]
    ELSE [self |-> [self EXCEPT !.acoustic_properties_ = {<<440, 100>>, <<880, 80>>},
                                !.is_initialized_ = TRUE],
          ret |-> TRUE]

shutdown_KeepsFields(self) ==
    IF ~self.is_initialized_ THEN self ELSE [self EXCEPT !.is_initialized_ = FALSE]

shutdown(self) ==
    IF ~self.is_initialized_
    THEN self
    ELSE [self EXCEPT !.interference_fields_ = <<>>,
                      !.sound_fields_ = <<>>,
                      !.is_initialized_ = FALSE]

addInterferenceField(self, field) ==
    IF ~self.is_initialized_
    THEN self
    ELSE [self EXCEPT !.interference_fields_ = Append(@, field)]

\* erase(begin() + field_index): indices of the code start at 0
Erase(s, field_index) ==
    [k \in 1..(Len(s) - 1) |-> IF k <= field_index THEN s[k] ELSE s[k + 1]]

removeInterferenceField(self, field_index) ==
    IF ~self.is_initialized_
    THEN self
    ELSE IF field_index < Len(self.interference_fields_)
         THEN [self EXCEPT !.interference_fields_ = Erase(@, field_index)]
         ELSE self

\* sound_fields_[position] = field
Store(map, position, field) ==
    [p \in DOMAIN map \cup {position} |-> IF p = position THEN field ELSE map[p]]

\* noise is the value drawn from the normal distribution
processSoundField(self, input_field, noise) ==
    IF ~self.is_initialized_
    THEN self
    ELSE LET stored == IF self.quantum_uncertainty_ > 0
                       THEN [input_field EXCEPT !.amplitude = @ + noise]
                       ELSE input_field
         IN  [self EXCEPT !.sound_fields_ = Store(@, input_field.position, stored)]

\* the fields of the map in the order of their keys
getOutputFields(self) ==
    IF ~self.is_initialized_
    THEN <<>>
    ELSE LET keys == DOMAIN self.sound_fields_
         IN  [k \in 1..Cardinality(keys) |->
                 self.sound_fields_[CHOOSE p \in keys :
                                        Cardinality({q \in keys : q < p}) = k - 1]]

\* decohered is the set of positions for which the uniform draw fell below 0.05
update(self, dt, decohered) ==
    IF ~self.is_initialized_
    THEN self
    ELSE LET fields == [k \in DOMAIN self.interference_fields_ |->
                           InterferenceField_updateQuantumState(
                               self.interference_fields_[k], dt)]
             accumulated == self.time_accumulator + dt
         IN  IF accumulated >= 16
             THEN [self EXCEPT
                     !.interference_fields_ = fields,
                     !.sound_fields_ =
                         [p \in DOMAIN @ |->
                             IF @[p].quantum_state = "SUPERPOSITION" /\ p \in decohered
                             THEN [@[p] EXCEPT !.quantum_state = "GROUND"]
                             ELSE @[p]],
                     !.time_accumulator = 0]
             ELSE [self EXCEPT !.interference_fields_ = fields,
                               !.time_accumulator = accumulated]

(***************************************************************************)
(* Core: one caller using one AnantaSoundCore, call after call             *)
(***************************************************************************)
Positions == {1, 2}
SoundFieldInputs ==
    {createQuantumSoundField(p, s) : p \in Positions, s \in {"SUPERPOSITION", "COHERENT"}}
NoiseValues == {10}
InterferenceInputs == {InterferenceField(<<"EXCITED">>)}
DtValues == {10, 200}

\* the latest call of the caller: its name, what initialize returned, what
\* getOutputFields returned, and the number of calls made
NoCoreCall == [op |-> "none", returned |-> "none", fields |-> <<>>, n |-> 0]

CoreInit ==
    /\ core = NewAnantaSoundCore
    /\ query = NoCoreCall
    /\ analyzers = <<>> /\ clock = <<>> /\ last = <<>>
    /\ IdleHarness /\ IdleProcessor /\ IdleThreads /\ IdleQap /\ IdleOverlap
    /\ IdleSetup /\ IdleConsciousness /\ IdleTempo

NotCore == <<analyzers, clock, last, cin, cout, processor, plast, pc, call, ret, qap, qpc,
            ov, audio_analyzer, initialized, ci, tempo>>

CoreCall(op, after, returned, fields) ==
    /\ query.n < MaxCoreCalls
    /\ core' = after
    /\ query' = [op |-> op, returned |-> returned, fields |-> fields, n |-> query.n + 1]
    /\ UNCHANGED NotCore

CoreInitialize ==
    LET r == AnantaSoundCore_initialize(core)
    IN  CoreCall("initialize", r.self, BoolName(r.ret), <<>>)

CoreShutdown == CoreCall("shutdown", shutdown(core), "none", <<>>)

CoreAddInterferenceField(f) ==
    /\ Len(core.interference_fields_) < MaxInterference
    /\ CoreCall("addInterferenceField", addInterferenceField(core, f), "none", <<>>)

CoreRemoveInterferenceField(k) ==
    CoreCall("removeInterferenceField", removeInterferenceField(core, k), "none", <<>>)

CoreProcessSoundField(f, noise) ==
    CoreCall("processSoundField", processSoundField(core, f, noise), "none", <<>>)

CoreUpdate(dt, decohered) ==
    CoreCall("update", update(core, dt, decohered), "none", <<>>)

CoreGetOutputFields ==
    CoreCall("getOutputFields", core, "none", getOutputFields(core))

CoreNext ==
    \/ CoreInitialize
    \/ CoreShutdown
    \/ \E f \in InterferenceInputs : CoreAddInterferenceField(f)
    \/ \E k \in 0..MaxInterference : CoreRemoveInterferenceField(k)
    \/ \E f \in SoundFieldInputs, noise \in NoiseValues : CoreProcessSoundField(f, noise)
    \/ \E dt \in DtValues, decohered \in SUBSET Positions : CoreUpdate(dt, decohered)
    \/ CoreGetOutputFields

Core == CoreInit /\ [][CoreNext]_vars


(***************************************************************************)
(* Consciousness: one caller using one ConsciousnessIntegration.  A phase  *)
(* is a whole number of quarter turns (multiples of pi/2), for which sine  *)
(* and cosine are exact; the phase of the consciousness field is kept in   *)
(* hundredths of a quarter turn.                                           *)
(***************************************************************************)
MaxUpdates == 3       \* calls made on the ConsciousnessIntegration
MaxPhases == 3        \* sound fields passed to one updateConsciousnessState call

NewConsciousnessIntegration ==
    [coherence_threshold_ |-> 70,
     integration_depth_ |-> 5,
     consciousness_state_ |-> "AWARE",
     consciousness_field_ |-> [amplitude |-> One, phase |-> 0, frequency |-> 43200,
                               quantum_state |-> "COHERENT"]]

Sin(phase) == CASE phase % 4 = 0 -> 0 [] phase % 4 = 1 -> 1
                [] phase % 4 = 2 -> 0 [] phase % 4 = 3 -> -1
Cos(phase) == CASE phase % 4 = 0 -> 1 [] phase % 4 = 1 -> 0
                [] phase % 4 = 2 -> -1 [] phase % 4 = 3 -> 0

RECURSIVE SumOver(_, _)
SumOver(Op(_), s) == IF s = <<>> THEN 0 ELSE Op(s[1]) + SumOver(Op, Tail(s))

Phase(field) == field.phase
SinOf(field) == Sin(field.phase)
CosOf(field) == Cos(field.phase)
FrequencyOf(field) == field.frequency
AmplitudeOf(field) == field.amplitude

\* calculateConsciousnessCoherence(sound_fields) > bound, for a bound in
\* hundredths that is not negative: the coherence is the length of the mean
\* of the unit vectors of the phases, and both sides are squared
CoherenceAbove(sound_fields, bound) ==
    IF sound_fields = <<>>
    THEN 0 > bound
    ELSE LET sum_sin == SumOver(SinOf, sound_fields)
             sum_cos == SumOver(CosOf, sound_fields)
             n == Len(sound_fields)
         IN  (sum_sin * sum_sin + sum_cos * sum_cos) * One * One > bound * bound * n * n

\* the weighted average with learning rate alpha = 0.1
Blend(old, avg) == (9 * old + avg) \div 10

updateConsciousnessField(self, sound_fields) ==
    IF sound_fields = <<>>
    THEN self
    ELSE LET n == Len(sound_fields)
             avg_frequency == SumOver(FrequencyOf, sound_fields) \div n
             avg_phase == (SumOver(Phase, sound_fields) * One) \div n
             avg_amplitude == SumOver(AmplitudeOf, sound_fields) \div n
             field == self.consciousness_field_
         IN  [self EXCEPT !.consciousness_field_ =
                 [frequency |-> Blend(field.frequency, avg_frequency),
                  phase |-> Blend(field.phase, avg_phase),
                  amplitude |-> Blend(field.amplitude, avg_amplitude),
                  quantum_state |->
                      CASE self.consciousness_state_ = "COHERENT" -> "COHERENT"
                        [] self.consciousness_state_ = "AWARE" -> "SUPERPOSITION"
                        [] OTHER -> "GROUND"]]

updateConsciousnessState_KeepsStateOnEmpty(self, sound_fields) ==
    IF sound_fields = <<>>
    THEN self
    ELSE updateConsciousnessField(
             [self EXCEPT !.consciousness_state_ =
                 IF CoherenceAbove(sound_fields, self.coherence_threshold_) THEN "COHERENT"
                 ELSE IF CoherenceAbove(sound_fields, 50) THEN "AWARE"
                 ELSE "DISSOCIATED"],
             sound_fields)

updateConsciousnessState(self, sound_fields) ==
    updateConsciousnessField(
        [self EXCEPT !.consciousness_state_ =
            IF CoherenceAbove(sound_fields, self.coherence_threshold_) THEN "COHERENT"
            ELSE IF CoherenceAbove(sound_fields, 50) THEN "AWARE"
            ELSE "DISSOCIATED"],
        sound_fields)

\* std::clamp(value, 0.0, 1.0)
Clamp(value) == Max(0, Min(One, value))

setCoherenceThreshold(self, threshold) ==
    [self EXCEPT !.coherence_threshold_ = Clamp(threshold)]

updateConsciousnessLevel(self, level) ==
    LET coherence == Clamp(level)
    IN  [self EXCEPT !.coherence_threshold_ = coherence,
                     !.consciousness_state_ =
                         IF coherence > 70 THEN "COHERENT"
                         ELSE IF coherence > 30 THEN "AWARE"
                         ELSE "DISSOCIATED"]

\* the sound fields of a call: amplitude 1, 432 Hz, phases in rising order
PhaseInputs == 0..2
RECURSIVE PhaseLists(_)
PhaseLists(n) ==
    IF n = 0
    THEN {<<>>}
    ELSE LET shorter == PhaseLists(n - 1)
         IN  shorter \cup
             {Append(s, p) : s \in {x \in shorter : Len(x) = n - 1}, p \in PhaseInputs}
SoundFieldLists ==
    {[k \in DOMAIN s |-> [amplitude |-> One, phase |-> s[k], frequency |-> 43200]] :
        s \in {x \in PhaseLists(MaxPhases) :
                   \A k \in 1..(Len(x) - 1) : x[k] <= x[k + 1]}}
CoherenceThresholdInputs == {30, 80, 100, 150}
LevelInputs == {20, 90}

NoConsciousnessCall == [op |-> "none", fields |-> <<>>, n |-> 0]

ConsciousnessInit ==
    /\ ci = NewConsciousnessIntegration
    /\ query = NoConsciousnessCall
    /\ analyzers = <<>> /\ clock = <<>> /\ last = <<>>
    /\ IdleHarness /\ IdleProcessor /\ IdleThreads /\ IdleQap /\ IdleOverlap
    /\ IdleSetup /\ IdleCore /\ IdleTempo

NotConsciousness ==
    <<analyzers, clock, last, cin, cout, processor, plast, pc, call, ret, qap, qpc,
      ov, audio_analyzer, initialized, core, tempo>>

ConsciousnessCall(op, after, fields) ==
    /\ query.n < MaxUpdates
    /\ ci' = after
    /\ query' = [op |-> op, fields |-> fields, n |-> query.n + 1]
    /\ UNCHANGED NotConsciousness

SeqUpdateConsciousnessState(sound_fields) ==
    ConsciousnessCall("updateConsciousnessState",
                      updateConsciousnessState(ci, sound_fields), sound_fields)

SeqSetCoherenceThreshold(threshold) ==
    ConsciousnessCall("setCoherenceThreshold", setCoherenceThreshold(ci, threshold), <<>>)

SeqUpdateConsciousnessLevel(level) ==
    ConsciousnessCall("updateConsciousnessLevel", updateConsciousnessLevel(ci, level), <<>>)

ConsciousnessNext ==
    \/ \E sound_fields \in SoundFieldLists : SeqUpdateConsciousnessState(sound_fields)
    \/ \E threshold \in CoherenceThresholdInputs : SeqSetCoherenceThreshold(threshold)
    \/ \E level \in LevelInputs : SeqUpdateConsciousnessLevel(level)

Consciousness == ConsciousnessInit /\ [][ConsciousnessNext]_vars


(***************************************************************************)
(* CoreThreads: threads calling the public methods of one AnantaSoundCore  *)
(* that is initialized and holds an interference field and a sound field.  *)
(* Every method reads is_initialized_ first, without the mutex.            *)
(* processSoundField, removeInterferenceField and shutdown then take the   *)
(* lock_guard on core_mutex_; update walks interference_fields_ and then   *)
(* sound_fields_ without it.                                               *)
(***************************************************************************)
NoSoundField == createQuantumSoundField(0, "GROUND")

CoreThreadCall(op, field, index, dt) ==
    [op |-> op, field |-> field, index |-> index, dt |-> dt, n |-> 0, seen |-> <<>>]

IdleCoreCall == CoreThreadCall("none", NoSoundField, 0, 0)

CoreThreadCalls ==
    {CoreThreadCall("processSoundField", createQuantumSoundField(2, "SUPERPOSITION"), 0, 0),
     CoreThreadCall("removeInterferenceField", NoSoundField, 0, 0),
     CoreThreadCall("shutdown", NoSoundField, 0, 0),
     CoreThreadCall("update", NoSoundField, 0, 200)}

CoreThreadsInit ==
    /\ LET initial == AnantaSoundCore_initialize(NewAnantaSoundCore).self
           with_interference ==
               addInterferenceField(initial, InterferenceField(<<"EXCITED">>))
       IN  core = processSoundField(with_interference,
                                    createQuantumSoundField(1, "SUPERPOSITION"), 10)
    /\ pc = [t \in Threads |-> "idle"]
    /\ call = [t \in Threads |-> IdleCoreCall]
    /\ ret = [t \in Threads |-> NoResult]
    /\ analyzers = <<>> /\ clock = <<>> /\ last = <<>>
    /\ IdleHarness /\ IdleProcessor /\ IdleQap /\ IdleQuery /\ IdleOverlap
    /\ IdleSetup /\ IdleConsciousness /\ IdleTempo

NotCoreThreads ==
    <<analyzers, clock, last, cin, cout, processor, plast, ret, qap, qpc, query, ov,
      audio_analyzer, initialized, ci, tempo>>

\* no thread has ended the process
CoreAlive == \A t \in Threads : pc[t] # "crashed"

\* thread t calls a method: 'if (!is_initialized_) return;' comes first
CoreBegin(t, c) ==
    /\ CoreAlive
    /\ pc[t] = "idle"
    /\ call[t].n < MaxThreadOps
    /\ call' = [call EXCEPT ![t] =
                   [c EXCEPT !.n = call[t].n + 1, !.seen = core.interference_fields_]]
    /\ pc' = [pc EXCEPT ![t] =
                 IF ~core.is_initialized_ THEN "idle"
                 ELSE IF c.op = "update" THEN "interference"
                 ELSE "lock"]
    /\ UNCHANGED <<core, NotCoreThreads>>

\* std::lock_guard<std::mutex> lock(core_mutex_);
CoreLock(t) ==
    /\ CoreAlive
    /\ pc[t] = "lock"
    /\ CanLock(core.core_mutex_, t)
    /\ core' = [core EXCEPT !.core_mutex_ = t]
    /\ pc' = [pc EXCEPT ![t] = "body"]
    /\ UNCHANGED <<call, NotCoreThreads>>

\* the part of a method that follows the test of is_initialized_
Initialized(self) == [self EXCEPT !.is_initialized_ = TRUE]

\* the locked part of processSoundField and removeInterferenceField, and the
\* release of the mutex by ~lock_guard
CoreBody(t) ==
    /\ CoreAlive
    /\ pc[t] = "body"
    /\ \/ /\ call[t].op = "processSoundField"
          /\ \E noise \in NoiseValues :
                 core' = [processSoundField(Initialized(core), call[t].field, noise)
                              EXCEPT !.is_initialized_ = core.is_initialized_,
                                     !.core_mutex_ = NoThread]
       \/ /\ call[t].op = "removeInterferenceField"
          /\ core' = [removeInterferenceField(Initialized(core), call[t].index)
                          EXCEPT !.is_initialized_ = core.is_initialized_,
                                 !.core_mutex_ = NoThread]
    /\ pc' = [pc EXCEPT ![t] = "idle"]
    /\ UNCHANGED <<call, NotCoreThreads>>

\* shutdown: the block that clears both collections under the mutex
CoreShutdownClear(t) ==
    /\ CoreAlive
    /\ pc[t] = "body" /\ call[t].op = "shutdown"
    /\ core' = [shutdown(Initialized(core))
                    EXCEPT !.is_initialized_ = core.is_initialized_,
                           !.core_mutex_ = NoThread]
    /\ pc' = [pc EXCEPT ![t] = "reset"]
    /\ UNCHANGED <<call, NotCoreThreads>>

\* shutdown: is_initialized_ = false, after the block
CoreShutdownReset(t) ==
    /\ CoreAlive
    /\ pc[t] = "reset"
    /\ core' = [core EXCEPT !.is_initialized_ = FALSE]
    /\ pc' = [pc EXCEPT ![t] = "idle"]
    /\ UNCHANGED <<call, NotCoreThreads>>

\* update: the loop over interference_fields_ ends.  When another thread
\* changed the vector during the loop the behaviour is undefined: the walk
\* ends the process or goes on with what it finds.
CoreUpdateInterference(t) ==
    /\ CoreAlive
    /\ pc[t] = "interference"
    /\ \/ /\ call[t].seen # core.interference_fields_
          /\ pc' = [pc EXCEPT ![t] = "crashed"]
          /\ UNCHANGED <<core, call>>
       \/ /\ core' = [core EXCEPT !.interference_fields_ =
                         update(Initialized(core), call[t].dt, {}).interference_fields_]
          /\ pc' = [pc EXCEPT ![t] = "sound"]
          /\ call' = [call EXCEPT ![t].seen = core.sound_fields_]
    /\ UNCHANGED NotCoreThreads

\* update: the accumulator and the loop over sound_fields_, likewise
CoreUpdateSound(t, decohered) ==
    /\ CoreAlive
    /\ pc[t] = "sound"
    /\ \/ /\ call[t].seen # core.sound_fields_
          /\ pc' = [pc EXCEPT ![t] = "crashed"]
          /\ UNCHANGED core
       \/ /\ LET r == update(Initialized(core), call[t].dt, decohered)
             IN  core' = [core EXCEPT !.sound_fields_ = r.sound_fields_,
                                      !.time_accumulator = r.time_accumulator]
          /\ pc' = [pc EXCEPT ![t] = "idle"]
    /\ UNCHANGED <<call, NotCoreThreads>>

CoreThreadsNext ==
    \/ \E t \in Threads, c \in CoreThreadCalls : CoreBegin(t, c)
    \/ \E t \in Threads : CoreLock(t)
    \/ \E t \in Threads : CoreBody(t)
    \/ \E t \in Threads : CoreShutdownClear(t)
    \/ \E t \in Threads : CoreShutdownReset(t)
    \/ \E t \in Threads : CoreUpdateInterference(t)
    \/ \E t \in Threads, decohered \in SUBSET Positions : CoreUpdateSound(t, decohered)

CoreThreads == CoreThreadsInit /\ [][CoreThreadsNext]_vars


(***************************************************************************)
(* Segmented: one thread inside analyzeBreathingWithOverlap on an analyzer *)
(* while another thread calls analyzeBreathing and the threshold setters   *)
(* of the same object.  analyzeBreathingWithOverlap takes no lock itself:  *)
(* each frame is one analyzeBreathing call, which locks and unlocks.       *)
(***************************************************************************)
SegmentedThreads == {"t2"}
SegmentedSizes == {4, 12, 16}
SegmentedCalls ==
    {c \in ThreadCalls : c[1] \in {"analyzeBreathing", "setBreathingRateThresholds",
                                   "setDepthThresholds", "setRapidBreathingThreshold",
                                   "setIrregularityThreshold"}}

SegmentedInit ==
    /\ analyzers = [i \in {"a1"} |-> [NewBreathingAnalyzer EXCEPT !.analysis_window_size_ = 8]]
    /\ clock = [o \in {"a1"} |-> 0]
    /\ last = NoLast
    /\ \E size \in SegmentedSizes :
          ov = [pc |-> "call", inst |-> "a1", size |-> size, start |-> 0, hop_size |-> 0,
                results |-> <<>>]
    /\ pc = [t \in SegmentedThreads |-> "idle"]
    /\ call = [t \in SegmentedThreads |-> IdleCall]
    /\ ret = [t \in SegmentedThreads |-> NoResult]
    /\ IdleHarness /\ IdleProcessor /\ IdleQap /\ IdleQuery
    /\ IdleLater

SegmentedNext ==
    \/ OverlapEnter
    \/ OverlapFrame
    \/ OverlapReturn
    \/ \E t \in SegmentedThreads, c \in SegmentedCalls : Begin(t, "a1", c)
    \/ \E t \in SegmentedThreads : Lock(t)
    \/ \E t \in SegmentedThreads : BodyAnalyze(t)
    \/ \E t \in SegmentedThreads : BodySetter(t)

Segmented == SegmentedInit /\ [][SegmentedNext]_vars


(***************************************************************************)
(* Tempo: one processAudioWithParameters call, followed through the loop   *)
(* of applyTempoAdjustment.  The buffer is known by its length; volume,    *)
(* bass, treble, reverb and echo keep the length.  The loop index i and    *)
(* the multiplier are in hundredths.                                       *)
(***************************************************************************)
MaxTempoSamples == 4      \* samples in the input of processAudioWithParameters
MaxTempoIterations == 10  \* iterations of the resampling loop that are followed

TempoMultipliers == {100, 50, 150, 200, 0, -50}

TempoInit ==
    /\ \E size \in 1..MaxTempoSamples, multiplier \in TempoMultipliers :
          tempo = [pc |-> "call", size |-> size, multiplier |-> multiplier, i |-> 0,
                   result |-> 0, iterations |-> 0]
    /\ analyzers = <<>> /\ clock = <<>> /\ last = <<>>
    /\ IdleHarness /\ IdleProcessor /\ IdleThreads /\ IdleQap /\ IdleQuery /\ IdleOverlap
    /\ IdleSetup /\ IdleCore /\ IdleConsciousness

NotTempo == <<analyzers, clock, last, cin, cout, processor, plast, pc, call, ret, qap, qpc,
             query, ov, audio_analyzer, initialized, core, ci>>

\* std::abs(multiplier - 1.0) < 0.01
NearOne(multiplier) == multiplier - One < 1 /\ One - multiplier < 1

\* applyVolumeAdjustment, then applyTempoAdjustment up to its loop: a
\* multiplier near 1 returns the audio as it is.  result.reserve(size /
\* multiplier) converts an infinite or negative quotient to size_t when the
\* multiplier is 0 or below, which is undefined: reserve throws or the call
\* goes on.
TempoEnter ==
    /\ tempo.pc = "call"
    /\ \/ /\ NearOne(tempo.multiplier)
          /\ tempo' = [tempo EXCEPT !.pc = "returned", !.result = tempo.size]
       \/ /\ ~NearOne(tempo.multiplier)
          /\ tempo' = [tempo EXCEPT !.pc = "loop", !.i = 0]
       \/ /\ tempo.multiplier <= 0
          /\ tempo' = [tempo EXCEPT !.pc = "thrown"]
    /\ UNCHANGED NotTempo

\* one iteration of 'for (double i = 0; i < audio.size(); i += multiplier)':
\* index = static_cast<size_t>(i) is undefined for a negative i, the sample
\* is pushed or not
TempoIteration ==
    /\ tempo.pc = "loop"
    /\ tempo.iterations < MaxTempoIterations
    /\ tempo.i < tempo.size * One
    /\ \E pushed \in BOOLEAN :
          /\ tempo.i >= 0 => pushed
          /\ tempo' = [tempo EXCEPT !.result = IF pushed THEN @ + 1 ELSE @,
                                    !.i = @ + tempo.multiplier,
                                    !.iterations = @ + 1]
    /\ UNCHANGED NotTempo

\* the loop condition fails: applyTempoAdjustment returns, the four later
\* effects keep the length, and processAudioWithParameters returns
TempoReturn ==
    /\ tempo.pc = "loop"
    /\ ~(tempo.i < tempo.size * One)
    /\ tempo' = [tempo EXCEPT !.pc = "returned"]
    /\ UNCHANGED NotTempo

TempoNext ==
    \/ TempoEnter
    \/ TempoIteration
    \/ TempoReturn

Tempo == TempoInit /\ [][TempoNext]_vars


(***************************************************************************)
(* Properties                                                              *)
(***************************************************************************)
\* the step is an analyzeBreathing call of the sequential caller
AnalyzeStep == last' # last
\* the step is a processAudio call of the sequential caller
ProcessStep == plast' # plast

RateHistory(i) == analyzers[i].breathing_rate_history_

\* C1: each history holds at most its capacity (20 for the BreathingAnalyzer,
\* 10 for the AdaptiveAudioProcessor); it holds the latest recorded entries in
\* insertion order, the newest last, and once capacity+1 entries were pushed
\* the oldest is gone.
C1_HistoryFifo ==
    /\ \A i \in DOMAIN analyzers :
          LET a == analyzers[i]
              n == clock[i]
              len == Len(a.analysis_history_)
          IN  /\ len = Min(n, 20)
              /\ Len(a.breathing_rate_history_) = len
              /\ Len(a.amplitude_history_) = len
              /\ \A k \in 1..len :
                    /\ a.analysis_history_[k].timestamp = n - len + k
                    /\ a.breathing_rate_history_[k] =
                          calculateBreathingRate(LongFrame(n - len + k))
                    /\ a.amplitude_history_[k] =
                          calculateBreathingDepth(LongFrame(n - len + k))
    /\ LET n == clock["processor"]
           len == Len(processor.emotion_history_)
       IN  /\ len = Min(n, 10)
           /\ Len(processor.parameter_history_) = len
           /\ \A k \in 1..len :
                 /\ processor.emotion_history_[k] = detectEmotionalState(LongInput(n - len + k))
                 /\ k > 1 =>
                       processor.parameter_history_[k] =
                         [f \in DOMAIN AdaptationParameters |->
                             Smooth(initializeEmotionPresets[processor.emotion_history_[k]][f],
                                    processor.parameter_history_[k - 1][f])]

\* witness of C1: both histories are full and have evicted their first entry
C1_Witness ==
    /\ clock["a1"] = 21 /\ Len(analyzers["a1"].analysis_history_) = 20
    /\ analyzers["a1"].analysis_history_[1].timestamp = 2
    /\ clock["processor"] = 11 /\ Len(processor.emotion_history_) = 10

\* the classifier as the ordered rule list: the outcome of the first rule
\* whose condition holds
RuleList(th, rate, depth, regularity) ==
    << <<rate < th.normal_breathing_rate_min_,
         IF depth > th.deep_breathing_threshold_ THEN "DEEP" ELSE "HOLDING">>,
       <<rate > th.rapid_breathing_threshold_, "RAPID">>,
       <<rate > th.normal_breathing_rate_max_,
         IF depth < th.shallow_breathing_threshold_ THEN "SHALLOW" ELSE "RAPID">>,
       <<regularity < th.irregularity_threshold_, "IRREGULAR">>,
       <<depth > th.deep_breathing_threshold_, "DEEP">>,
       <<depth < th.shallow_breathing_threshold_, "SHALLOW">>,
       <<TRUE, "NORMAL">> >>

FirstMatch(rules) ==
    rules[CHOOSE k \in 1..Len(rules) : rules[k][1] /\ \A j \in 1..(k - 1) : ~rules[j][1]][2]

\* C2: the state returned for (rate, depth, regularity) is the outcome of the
\* first matching rule of the ordered list; with the default thresholds
\* (15, 0.5, 0.9) gives NORMAL and rate 30 gives RAPID whatever the rest.
C2_FirstMatchingRule ==
    cout # NoReturn =>
        /\ cout = FirstMatch(RuleList(cin.th, cin.rate, cin.depth, cin.regularity))
        /\ (cin.th = initializeDefaultThresholds /\ cin.rate = 1500 /\ cin.depth = 50
               /\ cin.regularity = 90) => cout = "NORMAL"
        /\ (cin.th = initializeDefaultThresholds /\ cin.rate = 3000) => cout = "RAPID"

\* witness of C2: an irregular input inside the normal rate band was classified
C2_Witness ==
    /\ cout = "IRREGULAR"
    /\ cin.th = initializeDefaultThresholds /\ cin.rate = 1500 /\ cin.depth = 80

\* C6: a threshold setter leaves the stored history as it was, and the next
\* analyzeBreathing call classifies with the thresholds the setter installed.
C6_ThresholdsNextCall ==
    [][\A i \in DOMAIN analyzers :
          /\ analyzers'[i].thresholds # analyzers[i].thresholds =>
                /\ analyzers'[i].analysis_history_ = analyzers[i].analysis_history_
                /\ analyzers'[i].breathing_rate_history_ = analyzers[i].breathing_rate_history_
                /\ analyzers'[i].amplitude_history_ = analyzers[i].amplitude_history_
          /\ (AnalyzeStep /\ last'.call.inst = i /\ ~last'.call.arg.empty) =>
                LET r == last'.ret
                IN  /\ r.current_state =
                          classifyBreathingState(analyzers[i].thresholds, r.breathing_rate,
                                                 r.breathing_depth, r.breathing_regularity)
                    /\ analyzers'[i].thresholds = analyzers[i].thresholds]_vars

\* witness of C6: with entries already stored, a call was classified under
\* changed thresholds, differently than the defaults would have
C6_Witness ==
    /\ last # NoLast /\ ~last.call.arg.empty
    /\ Len(analyzers["a1"].analysis_history_) >= 2
    /\ analyzers["a1"].thresholds # initializeDefaultThresholds
    /\ last.ret.current_state #
          classifyBreathingState(initializeDefaultThresholds, last.ret.breathing_rate,
                                 last.ret.breathing_depth, last.ret.breathing_regularity)

\* C7: a classification made while fewer than 3 rates are recorded returns
\* pattern UNKNOWN, in the same call; so the first three recorded analyses of
\* a fresh analyzer all carry pattern UNKNOWN.
C7_PatternUnknownBelowThree ==
    [][\A i \in DOMAIN analyzers :
          (AnalyzeStep /\ last'.call.inst = i) =>
             /\ Len(RateHistory(i)) < 3 => last'.ret.pattern = "UNKNOWN"
             /\ \A k \in 1..Len(analyzers'[i].analysis_history_) :
                   analyzers'[i].analysis_history_[k].timestamp <= 3 =>
                       analyzers'[i].analysis_history_[k].pattern = "UNKNOWN"]_vars

\* witness of C7: the third recorded analysis returned UNKNOWN
C7_Witness ==
    /\ last # NoLast /\ ~last.call.arg.empty
    /\ last.ret.timestamp = 3 /\ last.ret.pattern = "UNKNOWN"
    /\ Len(RateHistory("a1")) = 3

\* C8: regularity, state and pattern of a call are computed from the history
\* as it stood before the call, and the call's own entry is appended after.
C8_ClassifyThenUpdate ==
    [][\A i \in DOMAIN analyzers :
          (AnalyzeStep /\ last'.call.inst = i /\ ~last'.call.arg.empty) =>
             LET r == last'.ret
             IN  /\ r.breathing_regularity = calculateBreathingRegularity(RateHistory(i))
                 /\ r.pattern = classifyBreathingPattern(RateHistory(i))
                 /\ r.current_state =
                       classifyBreathingState(analyzers[i].thresholds, r.breathing_rate,
                           r.breathing_depth, calculateBreathingRegularity(RateHistory(i)))
                 /\ analyzers'[i].breathing_rate_history_ =
                       Append(RateHistory(i), r.breathing_rate)
                 /\ Last(analyzers'[i].analysis_history_) = r]_vars

\* witness of C8: a call whose own rate would have changed both the
\* regularity and the pattern, had it been recorded first
C8_Witness ==
    /\ last # NoLast /\ ~last.call.arg.empty
    /\ Len(RateHistory("a1")) >= 4
    /\ last.ret.pattern # classifyBreathingPattern(RateHistory("a1"))
    /\ last.ret.breathing_regularity # calculateBreathingRegularity(RateHistory("a1"))

\* C9 as stated: a result carries UNKNOWN only when fewer than 3 rates are
\* recorded at the time of the call.
C9_UnknownOnlyWhenInsufficient ==
    [][\A i \in DOMAIN analyzers :
          (AnalyzeStep /\ last'.call.inst = i /\ Len(RateHistory(i)) >= 3) =>
             /\ last'.ret.current_state # "UNKNOWN"
             /\ last'.ret.pattern # "UNKNOWN"]_vars

\* C9 amended: state and pattern are members of the enumerations, and a result
\* carries UNKNOWN only when fewer than 3 rates are recorded at the time of
\* the call or the buffer is empty.
C9_UnknownOnlyWhenInsufficientOrEmpty ==
    [][\A i \in DOMAIN analyzers :
          (AnalyzeStep /\ last'.call.inst = i) =>
             /\ last'.ret.current_state \in BreathingState
             /\ last'.ret.pattern \in BreathingPattern
             /\ (Len(RateHistory(i)) >= 3 /\ ~last'.call.arg.empty) =>
                   /\ last'.ret.current_state # "UNKNOWN"
                   /\ last'.ret.pattern # "UNKNOWN"]_vars

\* witness of C9: a call on a non-empty buffer with 3 rates recorded before it
C9_Witness ==
    /\ last # NoLast /\ ~last.call.arg.empty
    /\ last.ret.timestamp = 4
    /\ last.ret.pattern \notin {"UNKNOWN"} /\ last.ret.current_state \notin {"UNKNOWN"}

\* C10: analyzeBreathing and processAudio on an empty buffer return the
\* default result (state, pattern, emotion UNKNOWN; every level 0; neutral
\* parameters) and leave the histories of the instance as they were.
C10_EmptyBufferNeutral ==
    [][/\ (AnalyzeStep /\ last'.call.arg.empty) =>
             /\ last'.ret.current_state = "UNKNOWN" /\ last'.ret.pattern = "UNKNOWN"
             /\ last'.ret.breathing_rate = 0 /\ last'.ret.breathing_depth = 0
             /\ last'.ret.breathing_regularity = 0
             /\ last'.ret.stress_level = 0 /\ last'.ret.relaxation_level = 0
             /\ analyzers' = analyzers
       /\ (ProcessStep /\ plast'.call.arg.empty) =>
             /\ plast'.ret.detected_emotion = "UNKNOWN"
             /\ plast'.ret.confidence = 0
             /\ plast'.ret.applied_parameters = AdaptationParameters
             /\ processor' = processor]_vars

\* witness of C10: both objects answered an empty buffer while holding history
C10_Witness ==
    /\ last # NoLast /\ last.call.arg.empty
    /\ Len(analyzers["a1"].analysis_history_) = 20
    /\ plast # NoLast /\ plast.call.arg.empty
    /\ Len(processor.emotion_history_) >= 1

\* the step is a query of the sequential caller (seq alternates with each)
QueryStep == query'.seq # query.seq

\* C11: a history query on an empty history returns its neutral default:
\* UNKNOWN from getCurrentBreathingState and getBreathingPattern, 0 from
\* getAverageBreathingRate, getStressLevel and getRelaxationLevel, and
\* UNKNOWN as the most common emotion of the AdaptiveAudioProcessor.
C11_EmptyHistoryDefaults ==
    [][QueryStep =>
          LET c == query'.call
              r == query'.ret
          IN  /\ (c.op \in Getters /\ analyzers[c.inst].analysis_history_ = <<>>
                     /\ analyzers[c.inst].breathing_rate_history_ = <<>>) =>
                    /\ ~r.threw
                    /\ c.op \in {"getCurrentBreathingState", "getBreathingPattern"} =>
                          r.value = "UNKNOWN"
                    /\ c.op \in {"getAverageBreathingRate", "getStressLevel",
                                  "getRelaxationLevel"} => r.value = 0
              /\ (c.inst = "processor" /\ processor.emotion_history_ = <<>>) =>
                    /\ ~r.threw
                    /\ r.value.most_common_emotion = "UNKNOWN"]_vars

\* witness of C11: the most common emotion was asked of a processor without
\* history, next to an analyzer without history
C11_Witness ==
    /\ query.call.op = "getStatistics" /\ query.call.inst = "processor"
    /\ ~query.ret.threw
    /\ processor.emotion_history_ = <<>>
    /\ analyzers["a1"].analysis_history_ = <<>>
    /\ clock["processor"] = 0

\* the neutral aggregate: means 0, most frequent state and pattern UNKNOWN,
\* count 0
NeutralStatistics ==
    [average_breathing_rate |-> 0, average_stress_level |-> 0,
     average_relaxation_level |-> 0, most_common_state |-> "UNKNOWN",
     most_common_pattern |-> "UNKNOWN", total_analyses |-> 0]

\* C12: BreathingAnalyzer::getStatistics on an empty history returns the
\* neutral aggregate, every field of it defined.
C12_EmptyStatisticsNeutral ==
    [][(QueryStep /\ query'.call.op = "getStatistics" /\ query'.call.inst # "processor"
           /\ analyzers[query'.call.inst].analysis_history_ = <<>>) =>
          query'.ret = Returned(NeutralStatistics)]_vars

\* C17: the parameters applied by a successful processAudio call are the
\* preset of the detected emotion when no successful call preceded, and
\* otherwise 0.7 preset + 0.3 previous, previous being the parameters applied
\* by the preceding successful call.
C17_SmoothedAgainstPrevious ==
    [][(ProcessStep /\ ~plast'.call.arg.empty) =>
          LET r == plast'.ret
              preset == processor.emotion_presets_[r.detected_emotion]
              previous == IF plast # NoLast /\ ~plast.call.arg.empty
                          THEN plast.ret.applied_parameters
                          ELSE Last(processor.parameter_history_)
          IN  /\ r.detected_emotion \in DOMAIN processor.emotion_presets_
              /\ IF clock["processor"] = 0
                 THEN r.applied_parameters = preset
                 ELSE \A f \in DOMAIN preset :
                         r.applied_parameters[f] = (70 * preset[f] + 30 * previous[f]) \div 100]_vars

\* witness of C17: a second successful call detected another emotion than the
\* first and applied parameters between the two presets
C17_Witness ==
    /\ plast # NoLast /\ ~plast.call.arg.empty
    /\ Len(processor.parameter_history_) = 2
    /\ processor.emotion_history_[1] # processor.emotion_history_[2]
    /\ plast.ret.applied_parameters # processor.emotion_presets_[plast.ret.detected_emotion]
    /\ processor.emotion_presets_ # initializeEmotionPresets

\* the frame size of the analyzer running the segmented analysis
FrameSize == analyzers[ov.inst].analysis_window_size_

C14_ResultsInTemporalOrder ==
    ov.pc \in {"loop", "returned"} /\ ov.size >= FrameSize =>
        LET n == Len(ov.results)
            h == analyzers[ov.inst].analysis_history_
        IN  /\ \A k \in 1..n :
                  /\ ov.results[k].breathing_rate =
                        calculateBreathingRate(LongFrame((k - 1) * (FrameSize \div 4)))
                  /\ ov.results[k].breathing_depth =
                        calculateBreathingDepth(LongFrame((k - 1) * (FrameSize \div 4)))
                  /\ ov.results[k].timestamp = k
            /\ Len(h) = Min(n, 20)
            /\ \A j \in 1..Len(h) : h[j] = ov.results[n - Len(h) + j]

\* witness of C14: a returned call with more frames than the history holds
C14_Witness ==
    /\ ov.pc = "returned" /\ FrameSize = 4 /\ Len(ov.results) = 37
    /\ ov.results[37].breathing_rate > ov.results[1].breathing_rate
    /\ analyzers[ov.inst].analysis_history_[1] = ov.results[18]

\* C15: on every iteration of the loop of analyzeBreathingWithOverlap the
\* frame start index strictly increases, for every power-of-two frame size.
C15_StartStrictlyIncreases ==
    [][(ov.pc = "loop" /\ ov'.pc = "loop" /\ Len(ov'.results) > Len(ov.results)) =>
          ov'.start > ov.start]_vars

\* C16: detectEmotionalState returns the category at least two of the three
\* heuristics voted for when there is one, and the category of the first
\* heuristic (the breathing pattern) when the three votes all differ.
C16_MajorityElseFirstHeuristic ==
    cout # NoReturn =>
        LET b == analyzeBreathingPattern(cin)
            r == analyzeRhythmicPattern(cin)
            sp == analyzeSpectralCharacteristics(cin)
        IN  /\ (b = r \/ b = sp) => cout = b
            /\ r = sp => cout = r
            /\ (b # r /\ b # sp /\ r # sp) => cout = b

\* C18: every access to the emotion-preset table and to the histories of an
\* AdaptiveAudioProcessor, the lookup getAdaptationParameters included, is
\* made by the thread owning processor_mutex_, so a lookup never overlaps a
\* setEmotionPreset write.
C18_ProcessorMutexProtectsPresets ==
    /\ \A t \in DOMAIN pc :
          pc[t] \in {"body", "write", "writing", "find"} => processor.processor_mutex_ = t
    /\ \A t, u \in DOMAIN pc : ~(pc[t] = "find" /\ pc[u] = "writing")

\* C19: stress_level and relaxation_level of every analyzeBreathing result lie
\* in [0,1], under every threshold configuration the setters can install.
C19_LevelsInUnitInterval ==
    last.call.op = "analyzeBreathing" =>
        /\ last.ret.stress_level >= 0 /\ last.ret.stress_level <= One
        /\ last.ret.relaxation_level >= 0 /\ last.ret.relaxation_level <= One

RECURSIVE SumOfSquares(_)
SumOfSquares(s) == IF s = <<>> THEN 0 ELSE Head(s) * Head(s) + SumOfSquares(Tail(s))

\* C20: with at least 3 rates recorded the pattern is REGULAR when the
\* coefficient of variation (population standard deviation over mean) is
\* below 10%, IRREGULAR when it is above 30%, and otherwise RELAXED for a
\* mean below 8, STRESSED above 20, EXERCISE above 15, CYCLICAL for the rest.
\* With rates b in whole breaths per minute, n of them, sum S and sum of
\* squares Q: variance / mean^2 = (n Q - S^2) / S^2.
C20_PatternByVariationThenMean ==
    (cout # NoReturn /\ Len(cin) >= 3) =>
        LET n == Len(cin)
            b == [k \in 1..n |-> cin[k] \div One]
            S == Accumulate(b)
            Q == SumOfSquares(b)
        IN  cout = IF 100 * (n * Q - S * S) < S * S THEN "REGULAR"
                   ELSE IF 100 * (n * Q - S * S) > 9 * S * S THEN "IRREGULAR"
                   ELSE IF S < 8 * n THEN "RELAXED"
                   ELSE IF S > 20 * n THEN "STRESSED"
                   ELSE IF S > 15 * n THEN "EXERCISE"
                   ELSE "CYCLICAL"

\* witness of C20: a history of mean above 20 and moderate variation was
\* classified STRESSED
C20_Witness ==
    /\ cin = <<2100, 2500, 3000>>
    /\ cout = "STRESSED"

\* C3: every getStatistics call runs to completion and returns the aggregate
\* view; no thread is left waiting forever for analyzer_mutex_.
C3_GetStatisticsReturns ==
    \A t \in DOMAIN pc :
        call[t].op = "getStatistics" =>
            /\ pc[t] # "deadlocked"
            /\ ~ret[t].threw

\* the positions at which a call reads or writes the histories and thresholds
InBody(t) == pc[t] \in {"body", "relock", "deadlocked"}

\* C4: every access to the histories and thresholds of an analyzer is made by
\* the thread that owns its analyzer_mutex_, so two calls on one instance
\* never overlap in them; a thread waits only for a call on the same instance.
C4_MutexProtectsState ==
    /\ \A t \in DOMAIN pc :
          InBody(t) => analyzers[call[t].inst].analyzer_mutex_ = t
    /\ \A t, u \in DOMAIN pc :
          (t # u /\ InBody(t) /\ InBody(u)) => call[t].inst # call[u].inst
    /\ \A i \in DOMAIN analyzers :
          analyzers[i].analyzer_mutex_ # NoThread =>
              LET o == analyzers[i].analyzer_mutex_
              IN  InBody(o) /\ call[o].inst = i

\* witness of C4: an analyzeBreathing call is inside its body on a1 while a
\* threshold setter called on a1 waits for the mutex
C4_Witness ==
    /\ pc["t1"] = "body" /\ call["t1"].op = "analyzeBreathing" /\ call["t1"].inst = "a1"
    /\ pc["t2"] = "lock" /\ call["t2"].op = "setBreathingRateThresholds"
    /\ call["t2"].inst = "a1"
    /\ analyzers["a1"].analyzer_mutex_ = "t1"

\* C5: the background loop does not own fields_mutex_ while it sleeps, so the
\* callers of addField and getProcessedFields are not kept out for the sleep.
C5_LoopSleepsUnlocked ==
    qpc.loop = "sleep" => qap.fields_mutex_ # "loop"


\* the step is an initialize call on object o
InitializeStep(o) ==
    initialized'[o] # initialized[o] \/ audio_analyzer'[o] # audio_analyzer[o]

\* C21: an initialize call that returns false has retained no partial state:
\* afterwards every configuration field of the object and of its spectral
\* analyzer, the analysis frequency range included, is as before the call.
C21_FailedInitializeRetainsNothing ==
    [][\A o \in DOMAIN initialized :
          (InitializeStep(o) /\ initialized'[o] = "false") =>
              /\ audio_analyzer'[o] = audio_analyzer[o]
              /\ analyzers' = analyzers /\ processor' = processor]_vars

\* C22: after initialize has returned false the instance is unusable: a
\* later analyzeBreathing or processAudio call classifies nothing and
\* appends nothing to the history.
C22_UnusableAfterFailedInitialize ==
    [][/\ (AnalyzeStep /\ initialized["a1"] = "false") =>
              /\ last'.ret = BreathingAnalysisResult(last'.ret.timestamp)
              /\ analyzers'["a1"].analysis_history_ = analyzers["a1"].analysis_history_
       /\ (ProcessStep /\ initialized["processor"] = "false") =>
              /\ plast'.ret = AdaptationResult(plast'.ret.timestamp)
              /\ processor'.emotion_history_ = processor.emotion_history_]_vars


IdenticalPhases(sound_fields) ==
    /\ sound_fields # <<>>
    /\ \A k \in DOMAIN sound_fields : sound_fields[k].phase = sound_fields[1].phase

\* the state that follows from coherence and threshold alone
StateByCoherence(sound_fields, threshold) ==
    IF CoherenceAbove(sound_fields, threshold) THEN "COHERENT"
    ELSE IF CoherenceAbove(sound_fields, 50) THEN "AWARE"
    ELSE "DISSOCIATED"

\* the step is an updateConsciousnessState call
UpdateStateStep == query'.n # query.n /\ query'.op = "updateConsciousnessState"

\* C24 as stated: a fresh ConsciousnessIntegration is AWARE; after each
\* updateConsciousnessState(fields) the state is COHERENT if the phase
\* coherence exceeds the threshold, otherwise AWARE if it exceeds 0.5,
\* otherwise DISSOCIATED, whatever the state was; fields with identical
\* phases give COHERENT and an empty list gives DISSOCIATED.
C24_StateByCoherence ==
    /\ [](query.n = 0 => ci.consciousness_state_ = "AWARE")
    /\ [][UpdateStateStep =>
            /\ ci'.consciousness_state_ =
                   StateByCoherence(query'.fields, ci.coherence_threshold_)
            /\ IdenticalPhases(query'.fields) => ci'.consciousness_state_ = "COHERENT"
            /\ query'.fields = <<>> => ci'.consciousness_state_ = "DISSOCIATED"]_vars

\* C24, amended: as above, but fields with identical phases give COHERENT
\* when the threshold is below 1; with the threshold at 1 they give AWARE.
C24_StateByCoherenceBelowOne ==
    /\ [](query.n = 0 => ci.consciousness_state_ = "AWARE")
    /\ [][UpdateStateStep =>
            /\ ci'.consciousness_state_ =
                   StateByCoherence(query'.fields, ci.coherence_threshold_)
            /\ IdenticalPhases(query'.fields) =>
                   ci'.consciousness_state_ =
                       IF ci.coherence_threshold_ < One THEN "COHERENT" ELSE "AWARE"
            /\ query'.fields = <<>> => ci'.consciousness_state_ = "DISSOCIATED"]_vars

\* three fields of one phase were passed with the threshold at 1
C24_Witness ==
    /\ query.op = "updateConsciousnessState"
    /\ Len(query.fields) = 3 /\ IdenticalPhases(query.fields)
    /\ ci.coherence_threshold_ = One
    /\ ci.consciousness_state_ = "AWARE"


\* thread t is reading or writing sound_fields_ or interference_fields_
AccessesCollections(t) == pc[t] \in {"body", "interference", "sound"}

\* C25: every read or write of the sound-field map and of the
\* interference-field list, those of update included, is made by a thread
\* holding core_mutex_, so update never overlaps processSoundField,
\* removeInterferenceField or shutdown on the collections.
C25_CollectionsUnderCoreMutex ==
    \A t \in DOMAIN pc :
        /\ AccessesCollections(t) => core.core_mutex_ = t
        /\ \A u \in DOMAIN pc \ {t} : ~(AccessesCollections(t) /\ AccessesCollections(u))


\* the analyzeBreathingWithOverlap call has analysed a frame and has another
\* frame to analyse
BetweenFrames ==
    /\ ov.pc = "loop" /\ ov.results # <<>>
    /\ LoopCondition(ov.start, analyzers[ov.inst].analysis_window_size_, ov.size)

\* C26: between two frames of one analyzeBreathingWithOverlap call no other
\* thread's analyzeBreathing entry is appended to the history and no
\* threshold change takes effect.
C26_SegmentedAnalysisAtomic ==
    [][(BetweenFrames /\ ov' = ov) =>
          /\ analyzers'[ov.inst].analysis_history_ = analyzers[ov.inst].analysis_history_
          /\ analyzers'[ov.inst].thresholds = analyzers[ov.inst].thresholds]_vars


\* C27: the parallel histories of an instance have equal length and their
\* i-th entries come from the same analysis: the rate and the amplitude at
\* position i are those of the result at position i, and the parameters at
\* position i are those applied for the emotion at position i (its preset
\* smoothed against the parameters at position i - 1).
C27_ParallelHistoriesAligned ==
    /\ \A i \in DOMAIN analyzers :
          LET a == analyzers[i]
          IN  /\ Len(a.breathing_rate_history_) = Len(a.analysis_history_)
              /\ Len(a.amplitude_history_) = Len(a.analysis_history_)
              /\ \A k \in DOMAIN a.analysis_history_ :
                    /\ a.breathing_rate_history_[k] = a.analysis_history_[k].breathing_rate
                    /\ a.amplitude_history_[k] = a.analysis_history_[k].breathing_depth
    /\ Len(processor.emotion_history_) = Len(processor.parameter_history_)
    /\ \A k \in 2..Len(processor.emotion_history_) :
          LET preset == getAdaptationParameters(processor, processor.emotion_history_[k])
              previous == processor.parameter_history_[k - 1]
          IN  processor.parameter_history_[k] =
                  [f \in DOMAIN preset |-> Smooth(preset[f], previous[f])]

\* both objects have evicted entries, and the entries they hold differ
C27_Witness ==
    /\ clock["a1"] = 22 /\ Len(analyzers["a1"].breathing_rate_history_) = 20
    /\ analyzers["a1"].breathing_rate_history_[1] # analyzers["a1"].breathing_rate_history_[20]
    /\ clock["processor"] = 12 /\ Len(processor.parameter_history_) = 10
    /\ processor.emotion_history_[1] # processor.emotion_history_[2]


\* C28: after any sequence of threshold-setter calls the configuration is
\* well ordered: normal minimum <= normal maximum < rapid threshold and
\* 0 < shallow threshold < deep threshold, so that the divisors of the
\* stress formula are strictly positive.
C28_ThresholdsWellOrdered ==
    \A i \in DOMAIN analyzers :
        LET th == analyzers[i].thresholds
        IN  /\ th.normal_breathing_rate_min_ <= th.normal_breathing_rate_max_
            /\ th.normal_breathing_rate_max_ < th.rapid_breathing_threshold_
            /\ 0 < th.shallow_breathing_threshold_
            /\ th.shallow_breathing_threshold_ < th.deep_breathing_threshold_
            /\ th.rapid_breathing_threshold_ - th.normal_breathing_rate_max_ > 0


\* C29: in processAudioWithParameters the index of the resampling loop
\* strictly advances on every iteration, for every tempo_multiplier a caller
\* can pass, 0 and below included, so that the call runs to completion.
C29_LoopIndexAdvances ==
    [][(tempo.pc = "loop" /\ tempo'.iterations > tempo.iterations) =>
          tempo'.i > tempo.i]_vars


\* C30: setProcessingEnabled toggles background processing in both
\* directions: once setProcessingEnabled(true) has followed
\* setProcessingEnabled(false) the background loop is running again, so
\* whenever the flag is set the processing thread is inside its loop.
C30_EnabledLoopIsRunning ==
    qap.processing_enabled_ => qpc.loop # "exited"

====
